---- MODULE Spec2Model ----
(***************************************************************************)
(* Model of the natural-language interpreter of multiCAD-mcp               *)
(* (src/src/nlp/processor.py, class NLPProcessor).                         *)
(*                                                                         *)
(* A text is a sequence of one-character strings.  Every regular           *)
(* expression of the source is translated into a matcher over such         *)
(* sequences; floats are fixed-point integers in thousandths (Milli).      *)
(***************************************************************************)
EXTENDS Integers, Sequences, FiniteSets, TLC

VARIABLES
  strict_mode,      \* the argument of NLPProcessor(strict_mode)
  text,             \* the argument of the call parse_command(text)
  pc,               \* "call" before that call, "done" after it
  result,           \* what the call returned or raised
  instance,         \* the attributes of the NLPProcessor instance
  calls,            \* the calls of parse_command that run concurrently
  backend,          \* the adapter call made by execute_natural_command
  cad_instances,    \* adapter_manager._cad_instances
  active_cad_type,  \* adapter_manager._active_cad_type
  adapter_cache,    \* the lru_cache of adapter_manager.get_adapter
  connected,        \* the adapters for which is_connected() is true
  created,          \* the number of adapters connected so far
  returned          \* the outcome of get_adapter, when it was the last call

manager_vars ==
  <<cad_instances, active_cad_type, adapter_cache, connected, created,
    returned>>

vars ==
  <<strict_mode, text, pc, result, instance, calls, backend, manager_vars>>

(***************************************************************************)
(* Bounds of the model.                                                    *)
(***************************************************************************)
\* Largest number of fragments (words or short phrases) of an input text.
MaxFragments == 3

\* Number of callers of parse_command that run concurrently.
MaxCallers == 2

\* Largest number of adapters connected in one behaviour.
MaxAdapters == 3

(***************************************************************************)
(* Characters.                                                             *)
(***************************************************************************)
DigitSeq == <<"0", "1", "2", "3", "4", "5", "6", "7", "8", "9">>

LowerSeq ==
  <<"a", "b", "c", "d", "e", "f", "g", "h", "i", "j", "k", "l", "m",
    "n", "o", "p", "q", "r", "s", "t", "u", "v", "w", "x", "y", "z">>

UpperSeq ==
  <<"A", "B", "C", "D", "E", "F", "G", "H", "I", "J", "K", "L", "M",
    "N", "O", "P", "Q", "R", "S", "T", "U", "V", "W", "X", "Y", "Z">>

Range(s) == {s[i] : i \in DOMAIN s}

Digits == Range(DigitSeq)

LowerLetters == Range(LowerSeq)

UpperLetters == Range(UpperSeq)

\* \s of the re module (ASCII part).
Whitespace == {" ", "\t", "\n", "\r", "\f"}

\* \w of the re module (ASCII part).
WordChars == Digits \cup LowerLetters \cup UpperLetters \cup {"_"}

\* The class [a-zA-Z0-9_\-] of the layer-name patterns.
NameChars == WordChars \cup {"-"}

Quotes == {"\"", "'"}

DigitVal == [c \in Digits |-> (CHOOSE k \in 1..10 : DigitSeq[k] = c) - 1]

LowerOf ==
  [c \in UpperLetters |-> LowerSeq[CHOOSE k \in 1..26 : UpperSeq[k] = c]]

\* str.lower(), one character.
LowerChar(c) == IF c \in UpperLetters THEN LowerOf[c] ELSE c

\* str.lower().
Lower(t) == [i \in 1..Len(t) |-> LowerChar(t[i])]

(***************************************************************************)
(* Matching primitives.  Positions are 1-based; a position one past the    *)
(* end of the text is Len(t) + 1.                                          *)
(***************************************************************************)
CharAt(t, i) == IF i >= 1 /\ i <= Len(t) THEN t[i] ELSE ""

\* The literal kw occurs in t starting at position i.
StartsAt(t, i, kw) ==
  /\ i >= 1
  /\ i + Len(kw) - 1 <= Len(t)
  /\ \A k \in 1..Len(kw) : t[i + k - 1] = kw[k]

\* Python's `kw in t` for strings.
Contains(t, kw) ==
  \E i \in 1..(Len(t) - Len(kw) + 1) :
    t[i] = kw[1] /\ \A k \in 2..Len(kw) : t[i + k - 1] = kw[k]

\* \b between positions i-1 and i.
WordBoundary(t, i) ==
  (CharAt(t, i - 1) \in WordChars) # (CharAt(t, i) \in WordChars)

\* First position >= i whose character is not in the class cls.
RECURSIVE SkipClass(_, _, _)
SkipClass(t, i, cls) ==
  IF i <= Len(t) /\ t[i] \in cls THEN SkipClass(t, i + 1, cls) ELSE i

\* First position >= i whose character is in the class cls.
RECURSIVE SkipUntil(_, _, _)
SkipUntil(t, i, cls) ==
  IF i <= Len(t) /\ t[i] \notin cls THEN SkipUntil(t, i + 1, cls) ELSE i

SkipSpaces(t, i) == SkipClass(t, i, Whitespace)

SkipDigits(t, i) == SkipClass(t, i, Digits)

\* Least element of a non-empty set of integers.
Min(S) == CHOOSE x \in S : \A y \in S : x <= y

(***************************************************************************)
(* Lexical tables (class attributes of NLPProcessor).                      *)
(***************************************************************************)
\* COMMAND_KEYWORDS: family -> keywords, in the order of the dict.
COMMAND_KEYWORDS ==
  [ draw |->
      << <<"d", "r", "a", "w">>,
         <<"c", "r", "e", "a", "t", "e">>,
         <<"m", "a", "k", "e">>,
         <<"a", "d", "d">> >>,
    erase |->
      << <<"e", "r", "a", "s", "e">>,
         <<"d", "e", "l", "e", "t", "e">>,
         <<"r", "e", "m", "o", "v", "e">>,
         <<"c", "l", "e", "a", "r">> >>,
    move |->
      << <<"m", "o", "v", "e">>,
         <<"t", "r", "a", "n", "s", "l", "a", "t", "e">>,
         <<"s", "h", "i", "f", "t">> >>,
    rotate |->
      << <<"r", "o", "t", "a", "t", "e">>,
         <<"t", "u", "r", "n">>,
         <<"s", "p", "i", "n">> >>,
    scale |->
      << <<"s", "c", "a", "l", "e">>,
         <<"r", "e", "s", "i", "z", "e">>,
         <<"e", "n", "l", "a", "r", "g", "e">>,
         <<"s", "h", "r", "i", "n", "k">> >>,
    dimension |->
      << <<"d", "i", "m", "e", "n", "s", "i", "o", "n">>,
         <<"a", "n", "n", "o", "t", "a", "t", "e">>,
         <<"m", "e", "a", "s", "u", "r", "e">> >>,
    layer |->
      << <<"l", "a", "y", "e", "r">> >>,
    rename |->
      << <<"r", "e", "n", "a", "m", "e">>,
         <<"c", "h", "a", "n", "g", "e", " ", "n", "a", "m", "e">> >>,
    turn_on |->
      << <<"t", "u", "r", "n", " ", "o", "n">>,
         <<"s", "h", "o", "w">>,
         <<"u", "n", "h", "i", "d", "e">>,
         <<"e", "n", "a", "b", "l", "e">> >>,
    turn_off |->
      << <<"t", "u", "r", "n", " ", "o", "f", "f">>,
         <<"h", "i", "d", "e">>,
         <<"d", "i", "s", "a", "b", "l", "e">> >> ]

\* SHAPE_KEYWORDS: shape -> keywords.
SHAPE_KEYWORDS ==
  [ line |->
      << <<"l", "i", "n", "e">>,
         <<"s", "e", "g", "m", "e", "n", "t">> >>,
    circle |->
      << <<"c", "i", "r", "c", "l", "e">>,
         <<"r", "o", "u", "n", "d">> >>,
    arc |->
      << <<"a", "r", "c">>,
         <<"c", "u", "r", "v", "e">> >>,
    rectangle |->
      << <<"r", "e", "c", "t", "a", "n", "g", "l", "e">>,
         <<"r", "e", "c", "t">>,
         <<"s", "q", "u", "a", "r", "e">> >>,
    polyline |->
      << <<"p", "o", "l", "y", "l", "i", "n", "e">>,
         <<"p", "o", "l", "y", "g", "o", "n">>,
         <<"p", "a", "t", "h">> >>,
    ellipse |->
      << <<"e", "l", "l", "i", "p", "s", "e">>,
         <<"o", "v", "a", "l">> >>,
    text |->
      << <<"t", "e", "x", "t">>,
         <<"l", "a", "b", "e", "l">>,
         <<"n", "o", "t", "e">> >>,
    hatch |->
      << <<"h", "a", "t", "c", "h">>,
         <<"f", "i", "l", "l">>,
         <<"p", "a", "t", "t", "e", "r", "n">> >> ]

COLOR_NAMES ==
  << [name |-> <<"b", "l", "a", "c", "k">>, value |-> "black"],
     [name |-> <<"r", "e", "d">>, value |-> "red"],
     [name |-> <<"g", "r", "e", "e", "n">>, value |-> "green"],
     [name |-> <<"b", "l", "u", "e">>, value |-> "blue"],
     [name |-> <<"y", "e", "l", "l", "o", "w">>, value |-> "yellow"],
     [name |-> <<"m", "a", "g", "e", "n", "t", "a">>, value |-> "magenta"],
     [name |-> <<"c", "y", "a", "n">>, value |-> "cyan"],
     [name |-> <<"w", "h", "i", "t", "e">>, value |-> "white"],
     [name |-> <<"g", "r", "a", "y">>, value |-> "gray"],
     [name |-> <<"g", "r", "e", "y">>, value |-> "gray"],
     [name |-> <<"o", "r", "a", "n", "g", "e">>, value |-> "orange"] >>

\* Insertion order of the keys of COMMAND_KEYWORDS (dict iteration order).
CommandOrder ==
  <<"draw", "erase", "move", "rotate", "scale", "dimension", "layer",
    "rename", "turn_on", "turn_off">>

\* Insertion order of the keys of SHAPE_KEYWORDS.
ShapeOrder ==
  <<"line", "circle", "arc", "rectangle", "polyline", "ellipse", "text",
    "hatch">>

\* None of Python, for the optional strings of the classifiers.
None == ""

(***************************************************************************)
(* Patterns of the command classifier.                                     *)
(***************************************************************************)
\* End (one past) of the words ws matched from position i with \s+ between
\* consecutive words; 0 when they do not match there.
RECURSIVE PhraseEnd(_, _, _)
PhraseEnd(t, i, ws) ==
  LET a == i + Len(Head(ws))
      Rest(b) == IF b = a THEN 0 ELSE PhraseEnd(t, b, Tail(ws))
  IN IF ~StartsAt(t, i, Head(ws)) THEN 0
     ELSE IF Len(ws) = 1 THEN a
     ELSE Rest(SkipSpaces(t, a))

\* re.search(r"\bw1\s+w2...\s+wn\b", t) is not None.
PhraseSearch(t, ws) ==
  \E i \in 1..Len(t) :
    /\ t[i] = ws[1][1]
    /\ WordBoundary(t, i)
    /\ LET Ends(e) == e # 0 /\ WordBoundary(t, e)
       IN Ends(PhraseEnd(t, i, ws))

\* _keyword_in_text: re.search(rf"\b{re.escape(keyword)}\b", text).
keyword_in_text(t, keyword) == PhraseSearch(t, <<keyword>>)

\* re.search(r"\b(create|make|add)\s+layer\b", t): the first rule of the
\* classifier if it asked for the word layer directly after the verb.
CreateLayerAdjacent(t) ==
  \E v \in { <<"c", "r", "e", "a", "t", "e">>, <<"m", "a", "k", "e">>, <<"a", "d", "d">> } : PhraseSearch(t, <<v, <<"l", "a", "y", "e", "r">>>>)

\* re.search(r"\b(create|make|add)\s+.*?\blayer\b", t): the verb, at least
\* one whitespace character, any characters but a newline, the word layer.
CreateLayerSearch(t) ==
  LET layer == <<"l", "a", "y", "e", "r">>
      verbs == { <<"c", "r", "e", "a", "t", "e">>, <<"m", "a", "k", "e">>,
                 <<"a", "d", "d">> }
      \* .*?\blayer\b from position b on, a being the end of the verb.
      LayerAfter(a, b) ==
        /\ b > a
        /\ \E j \in (a + 1)..Len(t) :
             /\ StartsAt(t, j, layer)
             /\ WordBoundary(t, j)
             /\ WordBoundary(t, j + Len(layer))
             /\ \A m \in (IF b < j THEN b ELSE j)..(j - 1) : t[m] # "\n"
  IN \E v \in verbs : \E i \in 1..Len(t) :
       /\ t[i] = v[1]
       /\ StartsAt(t, i, v)
       /\ WordBoundary(t, i)
       /\ LayerAfter(i + Len(v), SkipSpaces(t, i + Len(v)))

\* re.search(r"\b(list|show)\s+(all\s+)?layers?\b", t).
ListLayersSearch(t) ==
  LET verbs == { <<"l", "i", "s", "t">>, <<"s", "h", "o", "w">> }
      all == <<"a", "l", "l">>
      nouns == { <<"l", "a", "y", "e", "r">>, <<"l", "a", "y", "e", "r", "s">> }
  IN \E v \in verbs : \E n \in nouns :
       PhraseSearch(t, <<v, all, n>>) \/ PhraseSearch(t, <<v, n>>)

\* The layer-management branch with the show/unhide test moved before the
\* turn off test and the hide/disable test after it.
LayerManagementGrouped(t) ==
  IF \/ Contains(t, <<"r", "e", "n", "a", "m", "e">>)
     \/ Contains(t, <<"c", "h", "a", "n", "g", "e", " ", "n", "a", "m", "e">>)
    THEN "rename"
  ELSE IF \/ PhraseSearch(t, << <<"t", "u", "r", "n">>, <<"o", "n">>, <<"l", "a", "y", "e", "r">> >>)
          \/ PhraseSearch(t, << <<"s", "h", "o", "w">>, <<"l", "a", "y", "e", "r">> >>)
          \/ PhraseSearch(t, << <<"u", "n", "h", "i", "d", "e">>, <<"l", "a", "y", "e", "r">> >>)
    THEN "turn_on"
  ELSE IF \/ PhraseSearch(t, << <<"t", "u", "r", "n">>, <<"o", "f", "f">>, <<"l", "a", "y", "e", "r">> >>)
          \/ PhraseSearch(t, << <<"h", "i", "d", "e">>, <<"l", "a", "y", "e", "r">> >>)
          \/ PhraseSearch(t, << <<"d", "i", "s", "a", "b", "l", "e">>, <<"l", "a", "y", "e", "r">> >>)
    THEN "turn_off"
  ELSE IF \/ PhraseSearch(t, << <<"d", "e", "l", "e", "t", "e">>, <<"l", "a", "y", "e", "r">> >>)
          \/ PhraseSearch(t, << <<"r", "e", "m", "o", "v", "e">>, <<"l", "a", "y", "e", "r">> >>)
          \/ PhraseSearch(t, << <<"e", "r", "a", "s", "e">>, <<"l", "a", "y", "e", "r">> >>)
    THEN "layer"
  ELSE IF ListLayersSearch(t) THEN "layer"
  ELSE None

\* The layer-management branch of _identify_command_type (the body of
\* `if "layer" in text_lower or "layers" in text_lower`); None when the
\* mention of a layer is only a modifier.
LayerManagementType(t) ==
  LET layer == <<"l", "a", "y", "e", "r">>
      turn == <<"t", "u", "r", "n">>
  IN IF \/ Contains(t, <<"r", "e", "n", "a", "m", "e">>)
        \/ Contains(t, <<"c", "h", "a", "n", "g", "e", " ", "n", "a", "m", "e">>)
       THEN "rename"
     ELSE IF PhraseSearch(t, <<turn, <<"o", "n">>, layer>>) THEN "turn_on"
     ELSE IF PhraseSearch(t, <<turn, <<"o", "f", "f">>, layer>>) THEN "turn_off"
     ELSE IF \/ PhraseSearch(t, << <<"s", "h", "o", "w">>, layer>>)
             \/ PhraseSearch(t, << <<"u", "n", "h", "i", "d", "e">>, layer>>)
       THEN "turn_on"
     ELSE IF \/ PhraseSearch(t, << <<"h", "i", "d", "e">>, layer>>)
             \/ PhraseSearch(t, << <<"d", "i", "s", "a", "b", "l", "e">>, layer>>)
       THEN "turn_off"
     ELSE IF \/ PhraseSearch(t, << <<"d", "e", "l", "e", "t", "e">>, layer>>)
             \/ PhraseSearch(t, << <<"r", "e", "m", "o", "v", "e">>, layer>>)
             \/ PhraseSearch(t, << <<"e", "r", "a", "s", "e">>, layer>>)
       THEN "layer"
     ELSE IF ListLayersSearch(t) THEN "layer"
     ELSE None

\* any(keyword in text_lower for keyword in keywords).
AnyKeywordIn(t, keywords) ==
  \E k \in DOMAIN keywords : Contains(t, keywords[k])

\* The families checked by the last loop of _identify_command_type.
OtherFamilies ==
  SelectSeq(CommandOrder,
            LAMBDA c : c \notin {"layer", "rename", "turn_on", "turn_off", "draw"})

\* The last loop of _identify_command_type if it recognised no family.
FirstFamilyIgnored(t, fams) == None

\* First family of fams, in order, one of whose keywords occurs in t.
RECURSIVE FirstFamily(_, _)
FirstFamily(t, fams) ==
  IF fams = <<>> THEN None
  ELSE IF AnyKeywordIn(t, COMMAND_KEYWORDS[Head(fams)]) THEN Head(fams)
  ELSE FirstFamily(t, Tail(fams))

\* A classifier for which every mention of a layer is a layer command.
IdentifyLayerMention(t) ==
  IF Contains(t, <<"l", "a", "y", "e", "r">>) THEN "layer"
  ELSE IF AnyKeywordIn(t, COMMAND_KEYWORDS["draw"]) THEN "draw"
  ELSE FirstFamily(t, OtherFamilies)

\* _identify_command_type(text_lower).
identify_command_type(t) ==
  LET mentions == \/ Contains(t, <<"l", "a", "y", "e", "r">>)
                  \/ Contains(t, <<"l", "a", "y", "e", "r", "s">>)
      Classified(lm) ==
        IF lm # None THEN lm
        ELSE IF AnyKeywordIn(t, COMMAND_KEYWORDS["draw"]) THEN "draw"
        ELSE FirstFamily(t, OtherFamilies)
  IN IF CreateLayerSearch(t) THEN "layer"
     ELSE Classified(IF mentions THEN LayerManagementType(t) ELSE None)

(***************************************************************************)
(* Shape classifier.                                                       *)
(***************************************************************************)
\* max(len(kw) for kw in keywords): the sort key of _identify_shape_type.
MaxKeywordLen(keywords) ==
  CHOOSE n \in {Len(keywords[k]) : k \in DOMAIN keywords} :
    \A k \in DOMAIN keywords : Len(keywords[k]) <= n

ShapeIndex(s) == CHOOSE k \in DOMAIN ShapeOrder : ShapeOrder[k] = s

\* Position of shape s in sorted(..., key=max keyword length, reverse=True);
\* the sort is stable, so equal keys keep the order of the dict.
ShapeRank(s) ==
  1 + Cardinality({ o \in Range(ShapeOrder) :
        \/ MaxKeywordLen(SHAPE_KEYWORDS[o]) > MaxKeywordLen(SHAPE_KEYWORDS[s])
        \/ /\ MaxKeywordLen(SHAPE_KEYWORDS[o]) = MaxKeywordLen(SHAPE_KEYWORDS[s])
           /\ ShapeIndex(o) < ShapeIndex(s) })

\* The shapes in the order of SHAPE_KEYWORDS, without the sort by keyword
\* length.
UnsortedShapes == ShapeOrder

\* sorted_shapes of _identify_shape_type.
sorted_shapes ==
  [r \in 1..Len(ShapeOrder) |->
     CHOOSE s \in Range(ShapeOrder) : ShapeRank(s) = r]

\* any(self._keyword_in_text(text_lower, keyword) for keyword in keywords).
ShapeMatches(t, s) ==
  \E k \in DOMAIN SHAPE_KEYWORDS[s] : keyword_in_text(t, SHAPE_KEYWORDS[s][k])

RECURSIVE FirstShape(_, _)
FirstShape(t, shapes) ==
  IF shapes = <<>> THEN None
  ELSE IF ShapeMatches(t, Head(shapes)) THEN Head(shapes)
  ELSE FirstShape(t, Tail(shapes))

\* _identify_shape_type(text_lower).
identify_shape_type(t) == FirstShape(t, sorted_shapes)

(***************************************************************************)
(* Numbers.  A float is the integer number of its thousandths; digits      *)
(* after the third decimal place are dropped.                              *)
(***************************************************************************)
Milli == 10 * 10 * 10

RECURSIVE Pow10(_)
Pow10(n) == IF n <= 0 THEN 1 ELSE 10 * Pow10(n - 1)

\* int() of the digits t[i..j-1]; 0 for no digits.
RECURSIVE DigitsValue(_, _, _)
DigitsValue(t, i, j) ==
  IF j <= i THEN 0 ELSE DigitsValue(t, i, j - 1) * 10 + DigitVal[t[j - 1]]

\* Thousandths denoted by the fraction digits t[i..j-1].
FracMilli(t, i, j) ==
  LET d(k) == IF i + k < j THEN DigitVal[t[i + k]] ELSE 0
  IN d(0) * 100 + d(1) * 10 + d(2)

\* End (one past) of NUMBER_PATTERN matched at i, 0 when it does not match:
\* [+-]?(?:\d+\.?\d*|\d*\.\d+)(?:[eE][+-]?\d+)?
NumEnd(t, i) ==
  LET s == IF CharAt(t, i) \in {"+", "-"} THEN i + 1 ELSE i
      \* \d*\.\d+ from s on, e being the end of the digits after the point.
      Fraction(e) == IF e > s + 1 THEN e ELSE 0
      \* (?:\d+\.?\d*|\d*\.\d+) from s on, d being the end of the digits.
      Mantissa(d) ==
        IF d > s
          THEN (IF CharAt(t, d) = "." THEN SkipDigits(t, d + 1) ELSE d)
        ELSE IF CharAt(t, s) = "." THEN Fraction(SkipDigits(t, s + 1))
        ELSE 0
      \* (?:[eE][+-]?\d+)? after the mantissa that ends at m.
      Exponent(m, s2, d2) ==
        IF m # 0 /\ CharAt(t, m) \in {"e", "E"} /\ d2 > s2 THEN d2 ELSE m
      Signed(m, s2) == Exponent(m, s2, SkipDigits(t, s2))
      From(m) ==
        Signed(m, IF CharAt(t, m + 1) \in {"+", "-"} THEN m + 2 ELSE m + 1)
  IN From(Mantissa(SkipDigits(t, s)))

\* float() of the number text t[i..j-1] (a match of NUMBER_PATTERN or of
\* \d+\.?\d*), in thousandths.
ParseFloat(t, i, j) ==
  LET s == IF CharAt(t, i) \in {"+", "-"} THEN i + 1 ELSE i
      Mantissa(d, f) ==
        DigitsValue(t, s, d) * Milli
        + (IF f > d THEN FracMilli(t, d + 1, f) ELSE 0)
      Exponent(f) ==
        IF f < j
          THEN DigitsValue(t, IF CharAt(t, f + 1) \in {"+", "-"}
                                THEN f + 2 ELSE f + 1, j)
          ELSE 0
      Scaled(mant, f, e) ==
        IF f < j /\ CharAt(t, f + 1) = "-" THEN mant \div Pow10(e)
        ELSE mant * Pow10(e)
      Unsigned(d, f) == Scaled(Mantissa(d, f), f, Exponent(f))
      FromDigits(d) ==
        Unsigned(d, IF d < j /\ t[d] = "." THEN SkipDigits(t, d + 1) ELSE d)
      Signed(mag) == IF CharAt(t, i) = "-" THEN 0 - mag ELSE mag
  IN Signed(FromDigits(SkipDigits(t, s)))

(***************************************************************************)
(* COORD_PATTERN.                                                          *)
(***************************************************************************)
NoMatch == [end |-> 0, x |-> 0, y |-> 0]

\* (?:<name>\s*=\s*)? at position p: the position after it.
OptAxisName(t, p, name) ==
  LET After(q) ==
        IF CharAt(t, p) = name /\ CharAt(t, q) = "="
          THEN SkipSpaces(t, q + 1)
          ELSE p
  IN After(SkipSpaces(t, p + 1))

\* (?:<name>\s*=\s*)?(NUMBER_PATTERN) at position p: start and end of the
\* number; end = 0 when it does not match.
AxisNumber(t, p, name) ==
  LET Number(s) == [start |-> s, end |-> NumEnd(t, s)]
  IN Number(OptAxisName(t, p, name))

\* \s*[,;]\s*(?:<name>\s*=\s*)?(NUMBER_PATTERN) at position p.
NextAxisNumber(t, p, name) ==
  LET After(q) ==
        IF CharAt(t, q) \in {",", ";"}
          THEN AxisNumber(t, SkipSpaces(t, q + 1), name)
          ELSE [start |-> 0, end |-> 0]
  IN After(SkipSpaces(t, p))

\* COORD_PATTERN matched at position i (re.match at i): the end of the
\* match and the floats of groups 1 and 2; end = 0 when there is no match.
CoordMatchAt(t, i) ==
  LET Close(p) == IF CharAt(t, p) = ")" THEN p + 1 ELSE p
      Match(x, y, z) ==
        IF y.end = 0 THEN NoMatch
        ELSE [end |-> Close(SkipSpaces(t, IF z.end # 0 THEN z.end ELSE y.end)),
              x |-> ParseFloat(t, x.start, x.end),
              y |-> ParseFloat(t, y.start, y.end)]
      WithY(x, y) ==
        Match(x, y, IF y.end = 0 THEN y ELSE NextAxisNumber(t, y.end, "z"))
      WithX(x) ==
        IF x.end = 0 THEN NoMatch
        ELSE WithY(x, NextAxisNumber(t, x.end, "y"))
  IN WithX(AxisNumber(t, SkipSpaces(t, IF CharAt(t, i) = "(" THEN i + 1
                                       ELSE i), "x"))

\* The characters a match of COORD_PATTERN can begin with.
CoordFirstChars == Whitespace \cup Digits \cup {"(", "x", "+", "-", "."}

\* coord_regex.search(t, i): the leftmost match starting at or after i.
RECURSIVE CoordSearch(_, _)
CoordSearch(t, i) ==
  LET OrLater(m) == IF m.end # 0 THEN m ELSE CoordSearch(t, i + 1)
  IN IF i > Len(t) THEN NoMatch
     ELSE IF t[i] \notin CoordFirstChars THEN CoordSearch(t, i + 1)
     ELSE OrLater(CoordMatchAt(t, i))

\* The matches of coord_regex from position i on, last match first.
RECURSIVE CoordFindAllReversed(_, _)
CoordFindAllReversed(t, i) ==
  LET m == CoordSearch(t, i)
  IN IF m.end = 0 THEN <<>>
     ELSE CoordFindAllReversed(t, m.end) \o <<(<<m.x, m.y>>)>>

\* [(float(m.group(1)), float(m.group(2))) for m in coord_regex.finditer(t)]
\* from position i on.
RECURSIVE CoordFindAll(_, _)
CoordFindAll(t, i) ==
  LET From(m) ==
        IF m.end = 0 THEN <<>>
        ELSE <<(<<m.x, m.y>>)>> \o CoordFindAll(t, m.end)
  IN From(CoordSearch(t, i))

(***************************************************************************)
(* Measurement patterns: a prefix, an optional separator, a number.       *)
(***************************************************************************)
Found(v) == [ok |-> TRUE, val |-> v]

NotFound == [ok |-> FALSE, val |-> 0]

\* \s*(?:=|of|:)?\s*(\d+\.?\d*) matched at position p.
TailValue(t, p) ==
  LET Separator(a) ==
        IF CharAt(t, a) \in {"=", ":"} THEN a + 1
        ELSE IF StartsAt(t, a, <<"o", "f">>) THEN a + 2
        ELSE a
      Fraction(d) == IF CharAt(t, d) = "." THEN SkipDigits(t, d + 1) ELSE d
      Number(q, d) ==
        IF d = q THEN NotFound ELSE Found(ParseFloat(t, q, Fraction(d)))
      From(q) == Number(q, SkipDigits(t, q))
  IN IF p = 0 THEN NotFound
     ELSE From(SkipSpaces(t, Separator(SkipSpaces(t, p))))

\* The value after the first of the prefix ends `ends` (in the order of the
\* alternation; 0 = that alternative does not match) that is followed by a
\* value.
RECURSIVE FirstTail(_, _)
FirstTail(t, ends) ==
  LET OrNext(m) == IF m.ok THEN m ELSE FirstTail(t, Tail(ends))
  IN IF ends = <<>> THEN NotFound ELSE OrNext(TailValue(t, Head(ends)))

\* End of the literal kw matched at i, 0 when it does not match.
LitEnd(t, i, kw) == IF StartsAt(t, i, kw) THEN i + Len(kw) ELSE 0

\* Ends of the alternatives of a prefix at position i; each alternative is
\* a sequence of literals joined by \s+.
AltEnds(t, i, alts) == [k \in 1..Len(alts) |-> PhraseEnd(t, i, alts[k])]

\* re.search of a measurement pattern with prefix (?:alt1|alt2|...) from
\* position i on.
RECURSIVE MeasureSearch(_, _, _)
MeasureSearch(t, i, alts) ==
  LET OrLater(m) == IF m.ok THEN m ELSE MeasureSearch(t, i + 1, alts)
  IN IF i > Len(t) THEN NotFound
     ELSE IF \A k \in DOMAIN alts : t[i] # alts[k][1][1]
       THEN MeasureSearch(t, i + 1, alts)
     ELSE OrLater(FirstTail(t, AltEnds(t, i, alts)))

(***************************************************************************)
(* Capturing patterns: a keyword, whitespace, a quoted or bare token.      *)
(***************************************************************************)
\* ["\']([^"\']+)["\'] matched at position p: the group.
QuotedAt(t, p) ==
  LET Group(c) ==
        IF CharAt(t, p) \in Quotes /\ c > p + 1 /\ CharAt(t, c) \in Quotes
          THEN [ok |-> TRUE, val |-> SubSeq(t, p + 1, c - 1), end |-> c + 1]
          ELSE [ok |-> FALSE, val |-> <<>>, end |-> 0]
  IN Group(SkipUntil(t, p + 1, Quotes))

\* ([cls]+) matched at position p: the group.
TokenAt(t, p, cls) ==
  LET Group(c) ==
        IF c > p
          THEN [ok |-> TRUE, val |-> SubSeq(t, p, c - 1), end |-> c]
          ELSE [ok |-> FALSE, val |-> <<>>, end |-> 0]
  IN IF p < 1 THEN [ok |-> FALSE, val |-> <<>>, end |-> 0]
     ELSE Group(SkipClass(t, p, cls))

\* The group of (?:kw1|kw2|...)<spaces><capture> matched at position i of t,
\* the keywords being matched in tm (t itself, or its lowercase under
\* re.IGNORECASE); <spaces> is \s+ when minSpaces = 1 and \s* when it is 0;
\* <capture> is the quoted group when cls = {} and ([cls]+) otherwise.
RECURSIVE KwCaptureAt(_, _, _, _, _, _)
KwCaptureAt(tm, t, i, kws, minSpaces, cls) ==
  LET Others == KwCaptureAt(tm, t, i, Tail(kws), minSpaces, cls)
      OrOthers(m) == IF m.ok THEN m ELSE Others
      Capture(a, b) ==
        IF b - a < minSpaces THEN Others
        ELSE OrOthers(IF cls = {} THEN QuotedAt(t, b) ELSE TokenAt(t, b, cls))
      After(a) == IF a = 0 THEN Others ELSE Capture(a, SkipSpaces(t, a))
  IN IF kws = <<>> THEN [ok |-> FALSE, val |-> <<>>, end |-> 0]
     ELSE After(LitEnd(tm, i, Head(kws)))

\* re.search of such a pattern from position i on.
RECURSIVE KwCaptureSearch(_, _, _, _, _, _)
KwCaptureSearch(tm, t, i, kws, minSpaces, cls) ==
  LET Later == KwCaptureSearch(tm, t, i + 1, kws, minSpaces, cls)
      OrLater(m) == IF m.ok THEN m ELSE Later
  IN IF i > Len(t) THEN [ok |-> FALSE, val |-> <<>>, end |-> 0]
     ELSE IF \A k \in DOMAIN kws : tm[i] # kws[k][1] THEN Later
     ELSE OrLater(KwCaptureAt(tm, t, i, kws, minSpaces, cls))

\* re.search(r'["\']([^"\']+)["\']', t) from position i on.
RECURSIVE QuotedSearch(_, _)
QuotedSearch(t, i) ==
  LET OrLater(m) == IF m.ok THEN m ELSE QuotedSearch(t, i + 1)
  IN IF i > Len(t) THEN [ok |-> FALSE, val |-> <<>>, end |-> 0]
     ELSE IF t[i] \notin Quotes THEN QuotedSearch(t, i + 1)
     ELSE OrLater(QuotedAt(t, i))

(***************************************************************************)
(* Parameter extractors.  Each returns [ok, val]; ok = FALSE stands for    *)
(* the ValueError the extractor raises in strict mode.                     *)
(***************************************************************************)
\* The tail of an extractor without the strict branch: the default is
\* substituted in both modes.
OrDefaultLenient(m, strict, default) ==
  IF m.ok THEN [ok |-> TRUE, val |-> m.val] ELSE [ok |-> TRUE, val |-> default]

\* The common tail of the extractors: the match, else the default in
\* lenient mode, else the ValueError.
OrDefault(m, strict, default) ==
  IF m.ok THEN Found(m.val)
  ELSE IF ~strict THEN Found(default)
  ELSE [ok |-> FALSE, val |-> default]

\* _extract_color(text).
RECURSIVE FirstColor(_, _)
FirstColor(t, colors) ==
  IF colors = <<>> THEN "white"
  ELSE IF Contains(t, Head(colors).name) THEN Head(colors).value
  ELSE FirstColor(t, Tail(colors))

\* The last entry of the colour table whose name occurs in t.
ExtractColorLast(t) ==
  LET ks == {k \in DOMAIN COLOR_NAMES : Contains(t, COLOR_NAMES[k].name)}
  IN IF ks = {} THEN "white"
     ELSE COLOR_NAMES[CHOOSE k \in ks : \A j \in ks : k >= j].value

extract_color(t) == FirstColor(t, COLOR_NAMES)

LayerOrOn == << <<"l", "a", "y", "e", "r">>, <<"o", "n">> >>

\* _extract_layer(text), on the original text.
extract_layer(t) ==
  LET Unquoted(u) == IF u.ok THEN u.val ELSE <<"0">>
      Quoted(q) ==
        IF q.ok THEN q.val
        ELSE Unquoted(KwCaptureSearch(Lower(t), t, 1, LayerOrOn, 1, WordChars))
  IN Quoted(KwCaptureSearch(Lower(t), t, 1, LayerOrOn, 1, {}))

\* _extract_lineweight(text).
extract_lineweight(t) ==
  LET Weight(m) ==
        IF m.ok THEN DigitsValue(m.val, 1, Len(m.val) + 1) ELSE 0
  IN Weight(KwCaptureSearch(t, t, 1,
              << <<"w", "e", "i", "g", "h", "t">>,
                 <<"t", "h", "i", "c", "k", "n", "e", "s", "s">>,
                 <<"l", "i", "n", "e", "w", "e", "i", "g", "h", "t">> >>,
              1, Digits))

\* The first match of coord_regex as [ok, val].
FirstCoord(t) ==
  LET Point(m) == IF m.end # 0 THEN Found(<<m.x, m.y>>) ELSE NotFound
  IN Point(CoordSearch(t, 1))

\* _extract_single_point without its lenient branch: no coordinate is a
\* ValueError in both modes.
ExtractSinglePointStrict(t, strict) ==
  IF FirstCoord(t).ok THEN FirstCoord(t) ELSE [ok |-> FALSE, val |-> <<>>]

\* _extract_single_point(text).
extract_single_point(t, strict) ==
  OrDefault(FirstCoord(t), strict, <<0, 0>>)

\* _extract_line_points(text): the pair <<start, end>>.
extract_line_points(t, strict) ==
  LET Points(matches) ==
        IF Len(matches) >= 2 THEN Found(<<matches[1], matches[2]>>)
        ELSE IF ~strict
          THEN Found(<< <<0, 0>>, <<100 * Milli, 100 * Milli>> >>)
        ELSE [ok |-> FALSE, val |-> <<>>]
  IN Points(CoordFindAll(t, 1))

\* _extract_rectangle_corners(text).
extract_rectangle_corners(t, strict) == extract_line_points(t, strict)

\* The default square of _extract_multiple_points.
DefaultSquare ==
  << <<0, 0>>, <<100 * Milli, 0>>, <<100 * Milli, 100 * Milli>>,
     <<0, 100 * Milli>> >>

\* _extract_multiple_points(text).
extract_multiple_points(t, strict) ==
  LET Points(points) ==
        IF points # <<>> THEN Found(points)
        ELSE IF ~strict THEN Found(DefaultSquare)
        ELSE [ok |-> FALSE, val |-> <<>>]
  IN Points(CoordFindAll(t, 1))

\* The match of r"(?:radius|r)\s*(?:=|of|:)?\s*(\d+\.?\d*)".
RadiusMatch(t) ==
  MeasureSearch(t, 1, << << <<"r", "a", "d", "i", "u", "s">> >>, << <<"r">> >> >>)

\* _extract_radius with 100.0 in place of the default 50.0.
ExtractRadiusDefault100(t, strict) ==
  OrDefault(RadiusMatch(t), strict, 100 * Milli)

\* _extract_radius(text).
extract_radius(t, strict) == OrDefault(RadiusMatch(t), strict, 50 * Milli)

\* _extract_vector(text).
extract_vector(t, strict) ==
  OrDefault(FirstCoord(t), strict, <<50 * Milli, 0>>)

\* The match of r"(?:ratio|minor)\s*(?:=|of|:)?\s*(\d+\.?\d*)".
RatioMatch(t) ==
  MeasureSearch(t, 1, << << <<"r", "a", "t", "i", "o">> >>,
                         << <<"m", "i", "n", "o", "r">> >> >>)

\* min(max(ratio, 0.0), 1.0).
Clamp01(x) == IF x < 0 THEN 0 ELSE IF x > Milli THEN Milli ELSE x

\* The ratio of the text as it is, without the clamp.
ExtractMinorRatioUnclamped(t, strict) ==
  OrDefault(RatioMatch(t), strict, Milli \div 2)

\* _extract_minor_ratio(text).
extract_minor_ratio(t, strict) ==
  LET Ratio(m) ==
        IF m.ok THEN Found(Clamp01(m.val))
        ELSE IF ~strict THEN Found(Milli \div 2)
        ELSE NotFound
  IN Ratio(RatioMatch(t))

\* The match of r'(?:text|label|content)\s*["\']([^"\']+)["\']'.
TextContentMatch(t) ==
  KwCaptureSearch(t, t, 1,
    << <<"t", "e", "x", "t">>, <<"l", "a", "b", "e", "l">>,
       <<"c", "o", "n", "t", "e", "n", "t">> >>, 0, {})

\* _extract_text_content(text), on the original text.
extract_text_content(t, strict) ==
  OrDefault(TextContentMatch(t), strict, <<"T", "e", "x", "t">>)

\* The match of r"(?:height|size)\s*(?:=|of|:)?\s*(\d+\.?\d*)".
HeightMatch(t) ==
  MeasureSearch(t, 1, << << <<"h", "e", "i", "g", "h", "t">> >>,
                         << <<"s", "i", "z", "e">> >> >>)

\* _extract_text_height(text).
extract_text_height(t, strict) ==
  OrDefault(HeightMatch(t), strict, (5 * Milli) \div 2)

K_angle == <<"a", "n", "g", "l", "e">>

\* The alternatives of (?:{angle_type}[_\s]?angle|{angle_type}).
AnglePrefixes(angle_type) ==
  << <<angle_type \o <<"_">> \o K_angle>>,
     <<angle_type \o <<" ">> \o K_angle>>,
     <<angle_type \o <<"\t">> \o K_angle>>,
     <<angle_type \o <<"\n">> \o K_angle>>,
     <<angle_type \o <<"\r">> \o K_angle>>,
     <<angle_type \o <<"\f">> \o K_angle>>,
     <<angle_type \o K_angle>>,
     <<angle_type>> >>

K_start == <<"s", "t", "a", "r", "t">>

K_end == <<"e", "n", "d">>

K_rotation == <<"r", "o", "t", "a", "t", "i", "o", "n">>

\* The match with the fallback to the generic pattern for every angle type.
AngleMatchGeneric(t, angle_type) ==
  LET Generic ==
        MeasureSearch(t, 1,
          << <<K_start, K_angle>>, <<K_end, K_angle>>, <<K_angle>> >>)
      Qualified(m) == IF m.ok THEN m ELSE Generic
  IN Qualified(MeasureSearch(t, 1, AnglePrefixes(angle_type)))

\* The match _extract_angle uses: the type-qualified pattern, and for the
\* start angle also r"(?:start\s+angle|end\s+angle|angle)...".
AngleMatch(t, angle_type) ==
  LET Generic ==
        MeasureSearch(t, 1,
          << <<K_start, K_angle>>, <<K_end, K_angle>>, <<K_angle>> >>)
      Qualified(m) ==
        IF m.ok THEN m
        ELSE IF angle_type = K_start THEN Generic
        ELSE NotFound
  IN Qualified(MeasureSearch(t, 1, AnglePrefixes(angle_type)))

\* _extract_angle(text, angle_type).
extract_angle(t, angle_type, strict) ==
  OrDefault(AngleMatch(t, angle_type), strict, 0)

\* patterns of _extract_hatch_pattern with their upper() values.
HatchPatterns ==
  << [name |-> <<"s", "o", "l", "i", "d">>, value |-> "SOLID"],
     [name |-> K_angle, value |-> "ANGLE"],
     [name |-> <<"c", "r", "o", "s", "s">>, value |-> "CROSS"],
     [name |-> <<"h", "a", "t", "c", "h">>, value |-> "HATCH"],
     [name |-> <<"b", "r", "i", "c", "k">>, value |-> "BRICK"] >>

RECURSIVE FirstPattern(_, _)
FirstPattern(t, patterns) ==
  IF patterns = <<>> THEN [ok |-> FALSE, val |-> ""]
  ELSE IF Contains(t, Head(patterns).name)
    THEN [ok |-> TRUE, val |-> Head(patterns).value]
  ELSE FirstPattern(t, Tail(patterns))

\* The first pattern name that is a whole word of t.
ExtractHatchPatternWord(t, strict) ==
  LET ks == {k \in DOMAIN HatchPatterns :
               keyword_in_text(t, HatchPatterns[k].name)}
  IN OrDefault(
       IF ks = {} THEN [ok |-> FALSE, val |-> ""]
       ELSE [ok |-> TRUE,
             val |-> HatchPatterns[CHOOSE k \in ks : \A j \in ks : k <= j].value],
       strict, "SOLID")

\* _extract_hatch_pattern(text).
extract_hatch_pattern(t, strict) ==
  OrDefault(FirstPattern(t, HatchPatterns), strict, "SOLID")

(***************************************************************************)
(* _extract_parameters.                                                    *)
(***************************************************************************)
\* The shape-specific extractions of _extract_parameters, in the order the
\* code performs them: each a key and the [ok, val] of its extractor.
ShapeFields(shape_type, tl, original, strict) ==
  LET F(k, r) == [key |-> k, r |-> r]
      \* The two fields of a pair of points.
      Pair(k1, k2, r) ==
        <<F(k1, [ok |-> r.ok, val |-> IF r.ok THEN r.val[1] ELSE <<>>]),
          F(k2, [ok |-> r.ok, val |-> IF r.ok THEN r.val[2] ELSE <<>>])>>
  IN CASE shape_type = "line" ->
            Pair("start", "end", extract_line_points(tl, strict))
       [] shape_type = "circle" ->
            <<F("center", extract_single_point(tl, strict)),
              F("radius", extract_radius(tl, strict))>>
       [] shape_type = "arc" ->
            <<F("center", extract_single_point(tl, strict)),
              F("radius", extract_radius(tl, strict)),
              F("start_angle", extract_angle(tl, K_start, strict)),
              F("end_angle", extract_angle(tl, K_end, strict))>>
       [] shape_type = "rectangle" ->
            Pair("corner1", "corner2", extract_rectangle_corners(tl, strict))
       [] shape_type = "ellipse" ->
            <<F("center", extract_single_point(tl, strict)),
              F("major_axis", extract_vector(tl, strict)),
              F("minor_ratio", extract_minor_ratio(tl, strict))>>
       [] shape_type = "polyline" ->
            <<F("points", extract_multiple_points(tl, strict)),
              F("closed", Found(Contains(tl, <<"c", "l", "o", "s", "e", "d">>)))>>
       [] shape_type = "text" ->
            <<F("position", extract_single_point(tl, strict)),
              F("text", extract_text_content(original, strict)),
              F("height", extract_text_height(tl, strict)),
              F("rotation", extract_angle(tl, K_rotation, strict))>>
       [] shape_type = "hatch" ->
            <<F("boundary_points", extract_multiple_points(tl, strict)),
              F("pattern", extract_hatch_pattern(tl, strict))>>
       [] OTHER -> <<>>

\* _extract_parameters(shape_type, text_lower, original_text):
\* [ok |-> TRUE, params] or, when an extractor raises, [ok |-> FALSE].
extract_parameters(shape_type, tl, original, strict) ==
  LET common == [color |-> extract_color(tl),
                 layer |-> extract_layer(original),
                 lineweight |-> extract_lineweight(tl)]
      ValueOf(fields, key) ==
        fields[CHOOSE k \in DOMAIN fields : fields[k].key = key].r.val
      Parameters(fields) ==
        IF \E k \in DOMAIN fields : ~fields[k].r.ok
          THEN [ok |-> FALSE, params |-> <<>>]
          ELSE [ok |-> TRUE,
                params |-> [key \in {fields[k].key : k \in DOMAIN fields} |->
                              ValueOf(fields, key)] @@ common]
  IN Parameters(ShapeFields(shape_type, tl, original, strict))

(***************************************************************************)
(* _calculate_confidence.                                                  *)
(***************************************************************************)
\* The shape name as text; in SHAPE_KEYWORDS the first keyword of every
\* shape is the name of the shape.
ShapeName(shape_type) == SHAPE_KEYWORDS[shape_type][1]

\* The features with the coordinate feature read from the text: present
\* when the text has a coordinate pair, whatever the parameters hold.
ConfidenceFeaturesOfText(t, shape_type, parameters) ==
  LET tl == Lower(t) IN
  << [present |-> \/ keyword_in_text(tl, <<"d", "r", "a", "w">>)
                  \/ keyword_in_text(tl, <<"c", "r", "e", "a", "t", "e">>),
      weight |-> 150],
     [present |-> keyword_in_text(tl, ShapeName(shape_type)),
      weight |-> 300],
     [present |-> FirstCoord(tl).ok,
      weight |-> 350],
     [present |-> \E k \in {"radius", "height", "width"} :
                     k \in DOMAIN parameters,
      weight |-> 100],
     [present |-> parameters.color # "" /\ parameters.color # "white",
      weight |-> 50],
     [present |-> parameters.layer # <<>> /\ parameters.layer # <<"0">>,
      weight |-> 50] >>

\* features of _calculate_confidence with their weights, in thousandths.
ConfidenceFeatures(t, shape_type, parameters) ==
  LET tl == Lower(t) IN
  << [present |-> \/ keyword_in_text(tl, <<"d", "r", "a", "w">>)
                  \/ keyword_in_text(tl, <<"c", "r", "e", "a", "t", "e">>),
      weight |-> 150],
     [present |-> keyword_in_text(tl, ShapeName(shape_type)),
      weight |-> 300],
     [present |-> \E k \in {"start", "end", "center", "position", "points",
                            "corner1"} : k \in DOMAIN parameters,
      weight |-> 350],
     [present |-> \E k \in {"radius", "height", "width"} :
                     k \in DOMAIN parameters,
      weight |-> 100],
     [present |-> parameters.color # "" /\ parameters.color # "white",
      weight |-> 50],
     [present |-> parameters.layer # <<>> /\ parameters.layer # <<"0">>,
      weight |-> 50] >>

\* The sum of the weights of all the features, present or not.
RECURSIVE SumWeights(_)
SumWeights(features) ==
  IF features = <<>> THEN 0
  ELSE Head(features).weight + SumWeights(Tail(features))

RECURSIVE SumPresent(_)
SumPresent(features) ==
  IF features = <<>> THEN 0
  ELSE (IF Head(features).present THEN Head(features).weight ELSE 0)
       + SumPresent(Tail(features))

\* The score as a percentage, from 0 to 100, without the clamp.
ConfidencePercentage(t, shape_type, parameters) ==
  100 * SumPresent(ConfidenceFeatures(t, shape_type, parameters))

\* _calculate_confidence(text, shape_type, parameters), in thousandths.
calculate_confidence(t, shape_type, parameters) ==
  Clamp01(SumPresent(ConfidenceFeatures(t, shape_type, parameters)))

(***************************************************************************)
(* Layer-command sub-parser.                                               *)
(***************************************************************************)
\* str.split(): the whitespace-separated words of t from position i on.
RECURSIVE Split(_, _)
Split(t, i) ==
  LET Word(a, b) == <<SubSeq(t, a, b - 1)>> \o Split(t, b)
      From(a) ==
        IF a > Len(t) THEN <<>> ELSE Word(a, SkipUntil(t, a, Whitespace))
  IN From(SkipSpaces(t, i))

\* str.strip(chars).
RECURSIVE Strip(_, _)
Strip(w, chars) ==
  IF w # <<>> /\ Head(w) \in chars THEN Strip(Tail(w), chars)
  ELSE IF w # <<>> /\ w[Len(w)] \in chars
    THEN Strip(SubSeq(w, 1, Len(w) - 1), chars)
  ELSE w

\* The last-word fallback of _extract_single_layer_name.
LastWordName(t) ==
  LET Name(last_word) ==
        IF /\ last_word # <<>>
           /\ \A k \in DOMAIN last_word : last_word[k] \in NameChars
           /\ Lower(last_word) \notin { <<"l", "a", "y", "e", "r">>,
                                        <<"o", "n">>, <<"o", "f", "f">> }
          THEN [ok |-> TRUE, val |-> last_word]
          ELSE [ok |-> FALSE, val |-> <<>>]
      Last(words) ==
        IF words = <<>> THEN [ok |-> FALSE, val |-> <<>>]
        ELSE Name(Strip(words[Len(words)], {".", ",", ";", ":", "!", "?"}))
  IN Last(Split(t, 1))

\* _extract_single_layer_name(text_lower, original_text): [ok, val], ok =
\* FALSE for None.
extract_single_layer_name(tl, original) ==
  LET text_to_search == IF original # <<>> THEN original ELSE tl
      Keyword(kw) ==
        KwCaptureSearch(Lower(text_to_search), text_to_search, 1, <<kw>>, 1,
                        NameChars)
      named_match(m) ==
        IF m.ok THEN [ok |-> TRUE, val |-> m.val]
        ELSE LastWordName(text_to_search)
      layer_match(m) ==
        IF m.ok THEN [ok |-> TRUE, val |-> m.val]
        ELSE named_match(Keyword(<<"n", "a", "m", "e", "d">>))
      quoted_match(m) ==
        IF m.ok THEN [ok |-> TRUE, val |-> m.val]
        ELSE layer_match(Keyword(<<"l", "a", "y", "e", "r">>))
  IN quoted_match(QuotedSearch(text_to_search, 1))

\* ([a-zA-Z0-9_\-]+)\s+to\s+([a-zA-Z0-9_\-]+) matched at position p.
ToPairAt(t, p) ==
  LET None2 == [ok |-> FALSE, old |-> <<>>, new |-> <<>>]
      New(old, new) ==
        IF new.ok THEN [ok |-> TRUE, old |-> old.val, new |-> new.val]
        ELSE None2
      AfterTo(old, a, b) ==
        IF b > a + 2 THEN New(old, TokenAt(t, b, NameChars)) ELSE None2
      To(old, a) ==
        IF a > old.end /\ StartsAt(t, a, <<"t", "o">>)
          THEN AfterTo(old, a, SkipSpaces(t, a + 2))
          ELSE None2
      Old(old) == IF old.ok THEN To(old, SkipSpaces(t, old.end)) ELSE None2
  IN Old(TokenAt(t, p, NameChars))

\* re.search(r"<prefix>([a-zA-Z0-9_\-]+)\s+to\s+([a-zA-Z0-9_\-]+)", t) from
\* position i on; <prefix> is layer\s+ when withLayer and empty otherwise.
RECURSIVE ToPairSearch(_, _, _)
ToPairSearch(t, i, withLayer) ==
  LET None2 == [ok |-> FALSE, old |-> <<>>, new |-> <<>>]
      OrLater(m) == IF m.ok THEN m ELSE ToPairSearch(t, i + 1, withLayer)
      AfterLayer(a, b) == IF b > a THEN ToPairAt(t, b) ELSE None2
      Prefixed(a) == IF a = 0 THEN None2 ELSE AfterLayer(a, SkipSpaces(t, a))
  IN IF i > Len(t) THEN None2
     ELSE IF t[i] \notin NameChars THEN ToPairSearch(t, i + 1, withLayer)
     ELSE OrLater(IF withLayer
                    THEN Prefixed(LitEnd(t, i, <<"l", "a", "y", "e", "r">>))
                    ELSE ToPairAt(t, i))

\* _extract_rename_layers without the quoted format: only the two
\* "<old> to <new>" patterns.
ExtractRenameUnquoted(tl) ==
  IF ToPairSearch(tl, 1, TRUE).ok THEN ToPairSearch(tl, 1, TRUE)
  ELSE ToPairSearch(tl, 1, FALSE)

\* _extract_rename_layers(text_lower): [ok, old, new]; ok = FALSE for
\* (None, None).
extract_rename_layers(tl) ==
  LET Bare(m1) == IF m1.ok THEN m1 ELSE ToPairSearch(tl, 1, FALSE)
      Unquoted == Bare(ToPairSearch(tl, 1, TRUE))
      Second(q1, q2) ==
        IF q2.ok THEN [ok |-> TRUE, old |-> q1.val, new |-> q2.val]
        ELSE Unquoted
      First(q1) ==
        IF q1.ok THEN Second(q1, QuotedSearch(tl, q1.end)) ELSE Unquoted
  IN First(QuotedSearch(tl, 1))

\* A returned ParsedCommand.
ParsedCommand(operation, parameters, confidence, raw_text) ==
  [status |-> "ok", error |-> "", operation |-> operation,
   parameters |-> parameters, confidence |-> confidence,
   raw_text |-> raw_text]

\* A raised ValueError.
ValueError(message) ==
  [status |-> "error", error |-> message, operation |-> "",
   parameters |-> <<>>, confidence |-> 0, raw_text |-> <<>>]

\* The generic branch with the layer of a draw command among the
\* parameters of a created layer.
ParseGenericLayerWithLayer(tl, original) ==
  LET AnyOf(kws) == AnyKeywordIn(tl, kws)
      Create(layer_name) ==
        IF layer_name.ok
          THEN ParsedCommand("create_layer",
                 [name |-> layer_name.val,
                  color |-> extract_color(tl),
                  layer |-> extract_layer(tl),
                  lineweight |-> extract_lineweight(tl)],
                 900, original)
          ELSE ValueError("Cannot extract layer name")
      Delete(layer_name) ==
        IF layer_name.ok
          THEN ParsedCommand("delete_layer", [name |-> layer_name.val],
                             900, original)
          ELSE ValueError("Cannot extract layer name")
  IN IF AnyOf(<< <<"c", "r", "e", "a", "t", "e">>, <<"m", "a", "k", "e">>,
               <<"a", "d", "d">> >>)
       THEN Create(extract_single_layer_name(tl, original))
     ELSE IF AnyOf(<< <<"d", "e", "l", "e", "t", "e">>,
                    <<"r", "e", "m", "o", "v", "e">>,
                    <<"e", "r", "a", "s", "e">> >>)
       THEN Delete(extract_single_layer_name(tl, original))
     ELSE IF AnyOf(<< <<"l", "i", "s", "t">>, <<"s", "h", "o", "w">>,
                    <<"a", "l", "l">> >>)
       THEN ParsedCommand("list_layers", <<>>, 950, original)
     ELSE ValueError("Cannot determine layer operation")

\* The `command_type == "layer"` branch of _parse_layer_command.
parse_generic_layer(tl, original) ==
  LET AnyOf(kws) == AnyKeywordIn(tl, kws)
      Create(layer_name) ==
        IF layer_name.ok
          THEN ParsedCommand("create_layer",
                 [name |-> layer_name.val,
                  color |-> extract_color(tl),
                  lineweight |-> extract_lineweight(tl)],
                 900, original)
          ELSE ValueError("Cannot extract layer name")
      Delete(layer_name) ==
        IF layer_name.ok
          THEN ParsedCommand("delete_layer", [name |-> layer_name.val],
                             900, original)
          ELSE ValueError("Cannot extract layer name")
  IN IF AnyOf(<< <<"c", "r", "e", "a", "t", "e">>, <<"m", "a", "k", "e">>,
               <<"a", "d", "d">> >>)
       THEN Create(extract_single_layer_name(tl, original))
     ELSE IF AnyOf(<< <<"d", "e", "l", "e", "t", "e">>,
                    <<"r", "e", "m", "o", "v", "e">>,
                    <<"e", "r", "a", "s", "e">> >>)
       THEN Delete(extract_single_layer_name(tl, original))
     ELSE IF AnyOf(<< <<"l", "i", "s", "t">>, <<"s", "h", "o", "w">>,
                    <<"a", "l", "l">> >>)
       THEN ParsedCommand("list_layers", <<>>, 950, original)
     ELSE ValueError("Cannot determine layer operation")

\* _parse_layer_command(command_type, text_lower, original_text).
parse_layer_command(command_type, tl, original) ==
  LET Rename(names) ==
        IF names.ok
          THEN ParsedCommand("rename_layer",
                 [old_name |-> names.old, new_name |-> names.new],
                 900, original)
          ELSE ValueError("Cannot extract old and new layer names")
      Turn(operation, layer_name) ==
        IF layer_name.ok
          THEN ParsedCommand(operation, [name |-> layer_name.val], 900,
                             original)
          ELSE ValueError("Cannot extract layer name")
  IN CASE command_type = "rename" -> Rename(extract_rename_layers(tl))
       [] command_type = "turn_on" ->
            Turn("turn_layer_on", extract_single_layer_name(tl, original))
       [] command_type = "turn_off" ->
            Turn("turn_layer_off", extract_single_layer_name(tl, original))
       [] command_type = "layer" -> parse_generic_layer(tl, original)
       [] OTHER -> ValueError("Unknown layer command type")

(***************************************************************************)
(* parse_command.                                                          *)
(***************************************************************************)
\* The shape name without the draw_ prefix: what parse_command would return
\* if it passed shape_type on as the operation.
DrawOperationBare(shape_type) == shape_type

\* f"draw_{shape_type}".
DrawOperation(shape_type) ==
  CASE shape_type = "line" -> "draw_line"
    [] shape_type = "circle" -> "draw_circle"
    [] shape_type = "arc" -> "draw_arc"
    [] shape_type = "rectangle" -> "draw_rectangle"
    [] shape_type = "polyline" -> "draw_polyline"
    [] shape_type = "ellipse" -> "draw_ellipse"
    [] shape_type = "text" -> "draw_text"
    [] shape_type = "hatch" -> "draw_hatch"

\* The command type without the default to draw for a text that only names
\* a shape.
ResolvedWithoutShapeDefault(tl) == identify_command_type(tl)

\* The command type parse_command works with: the classified one, or draw
\* when there is none and a shape can be identified.
ResolvedCommandType(tl) ==
  LET Resolved(command_type) ==
        IF command_type # None THEN command_type
        ELSE IF identify_shape_type(tl) # None THEN "draw"
        ELSE None
  IN Resolved(identify_command_type(tl))

\* The draw branch with the confidence 1.0 for every command returned in
\* strict mode.
ParseDrawCommandStrictCertain(t, strict) ==
  LET Command(shape_type, ex) ==
        IF ~ex.ok THEN ValueError("Cannot extract")
        ELSE ParsedCommand(DrawOperation(shape_type), ex.params,
               IF strict THEN Milli
               ELSE calculate_confidence(Lower(t), shape_type, ex.params), t)
      Shape(shape_type) ==
        IF shape_type = None THEN ValueError("Cannot identify shape type")
        ELSE Command(shape_type,
                     extract_parameters(shape_type, Lower(t), t, strict))
  IN Shape(identify_shape_type(Lower(t)))

\* The `command_type == "draw"` branch of parse_command.
parse_draw_command(t, strict) ==
  LET Command(shape_type, ex) ==
        IF ~ex.ok THEN ValueError("Cannot extract")
        ELSE ParsedCommand(DrawOperation(shape_type), ex.params,
               calculate_confidence(Lower(t), shape_type, ex.params), t)
      Shape(shape_type) ==
        IF shape_type = None THEN ValueError("Cannot identify shape type")
        ELSE Command(shape_type,
                     extract_parameters(shape_type, Lower(t), t, strict))
  IN Shape(identify_shape_type(Lower(t)))

\* parse_command(text) from the point where command_type is known, of a
\* processor whose strict_mode is strict.
dispatch_command(command_type, t, strict) ==
  IF command_type = None
    THEN ValueError("Cannot identify command type")
  ELSE IF command_type \in {"layer", "rename", "turn_on", "turn_off"}
    THEN parse_layer_command(command_type, Lower(t), t)
  ELSE IF command_type = "draw" THEN parse_draw_command(t, strict)
  ELSE ValueError("not yet supported")

\* parse_command(text) of a processor constructed with strict_mode = strict.
parse_command(t, strict) ==
  dispatch_command(ResolvedCommandType(Lower(t)), t, strict)

(***************************************************************************)
(* Input texts: up to MaxFragments fragments joined by single spaces.      *)
(***************************************************************************)
RECURSIVE Join(_)
Join(fs) ==
  IF fs = <<>> THEN <<>>
  ELSE IF Len(fs) = 1 THEN fs[1]
  ELSE fs[1] \o <<" ">> \o Join(Tail(fs))

TextsOver(fragments) ==
  UNION { {Join(fs) : fs \in [1..n -> fragments]} : n \in 0..MaxFragments }

(***************************************************************************)
(* The NLPProcessor instance and the adapter manager after import.         *)
(***************************************************************************)
\* NLPProcessor.__init__(strict_mode): the attributes of the instance.
Constructed(strict) ==
  [strict_mode |-> strict,
   coord_regex |-> "COORD_PATTERN",
   number_regex |-> "NUMBER_PATTERN"]

\* A parse_command that leaves the instance in lenient mode.
SelfLenientAfterParse(self, t) == [self EXCEPT !.strict_mode = FALSE]

\* The attributes of self after parse_command(text): the method and the
\* methods it calls assign no attribute of self and of the class.
SelfAfterParse(self, t) == self

\* A caller that is not inside parse_command.
IdleCall ==
  [pc |-> "idle", text |-> <<>>, command_type |-> None,
   result |-> ValueError("idle")]

\* No adapter call has been made.
NoCall == [method |-> "", args |-> <<>>]

\* No outcome of get_adapter.
NoReturn == [cad_type |-> None, resolved |-> None, adapter |-> 0,
             raised |-> FALSE]

\* adapter_manager after import: no instance, no active type, nothing
\* cached.
ManagerInit ==
  /\ cad_instances = <<>>
  /\ active_cad_type = None
  /\ adapter_cache = <<>>
  /\ connected = {}
  /\ created = 0
  /\ returned = NoReturn

(***************************************************************************)
(* The state machine: one NLPProcessor and one call of parse_command.      *)
(***************************************************************************)
\* The value of result before parse_command has returned.
Pending == ValueError("pending")

\* NLPProcessor(strict_mode) constructed, a caller about to call
\* parse_command(text) with the given text.
InitWith(texts) ==
  /\ strict_mode \in BOOLEAN
  /\ text \in texts
  /\ pc = "call"
  /\ result = Pending
  /\ instance = Constructed(strict_mode)
  /\ calls = [c \in 1..MaxCallers |-> IdleCall]
  /\ backend = NoCall
  /\ ManagerInit

\* The same, with a text over the given fragments.
InitOver(fragments) == InitWith(TextsOver(fragments))

\* The call parse_command(text) runs to its return or its raise.
ParseCommand ==
  /\ pc = "call"
  /\ result' = parse_command(text, instance.strict_mode)
  /\ pc' = "done"
  /\ instance' = SelfAfterParse(instance, text)
  /\ UNCHANGED <<strict_mode, text, calls, backend, manager_vars>>

Next == ParseCommand

(***************************************************************************)
(* Concurrent calls of parse_command on the one instance.  A call reads    *)
(* the lexical tables to classify the text, then the attributes of the     *)
(* instance to extract the parameters; other calls run between the two.    *)
(***************************************************************************)
\* A caller enters parse_command(t).
Enter(c, t) ==
  /\ calls[c].pc = "idle"
  /\ calls' = [calls EXCEPT ![c] =
                 [pc |-> "entered", text |-> t, command_type |-> None,
                  result |-> Pending]]
  /\ UNCHANGED <<strict_mode, text, pc, result, instance, backend,
                 manager_vars>>

\* The call classifies its text: _identify_command_type, and
\* _identify_shape_type when there is no command type.
Identify(c) ==
  /\ calls[c].pc = "entered"
  /\ calls' = [calls EXCEPT
                 ![c].pc = "identified",
                 ![c].command_type =
                   ResolvedCommandType(Lower(calls[c].text))]
  /\ UNCHANGED <<strict_mode, text, pc, result, instance, backend,
                 manager_vars>>

\* The call parses by its command type, with the strict_mode that the
\* instance has now, and returns or raises.
Finish(c) ==
  /\ calls[c].pc = "identified"
  /\ calls' = [calls EXCEPT
                 ![c].pc = "done",
                 ![c].result =
                   dispatch_command(calls[c].command_type, calls[c].text,
                                    instance.strict_mode)]
  /\ instance' = SelfAfterParse(instance, calls[c].text)
  /\ UNCHANGED <<strict_mode, text, pc, result, backend, manager_vars>>

\* The caller has taken the result and may call again.
Leave(c) ==
  /\ calls[c].pc = "done"
  /\ calls' = [calls EXCEPT ![c] = IdleCall]
  /\ UNCHANGED <<strict_mode, text, pc, result, instance, backend,
                 manager_vars>>

(***************************************************************************)
(* execute_natural_command (src/src/mcp_tools/tools/nlp.py): the dispatch   *)
(* of a parsed command to the adapter.                                     *)
(***************************************************************************)
\* The adapter call of execute_natural_command for the ParsedCommand
\* parsed: the method, and under every key that the branch reads with
\* params.get(key, default) the value that it passes on.
execute_natural_command(parsed) ==
  LET params == parsed.parameters
      Get(key, default) ==
        IF key \in DOMAIN params THEN params[key] ELSE default
      Call(method, args) == [method |-> method, args |-> args]
      Styled(args) ==
        args @@ [layer |-> Get("layer", <<"0">>),
                 color |-> Get("color", "white")]
      operation == parsed.operation
  IN CASE operation = "draw_line" ->
            Call("draw_line",
                 Styled([start |-> Get("start", <<0, 0>>),
                         end |-> Get("end", <<100 * Milli, 100 * Milli>>)]))
       [] operation = "draw_circle" ->
            Call("draw_circle",
                 Styled([center |-> Get("center", <<0, 0>>),
                         radius |-> Get("radius", 50 * Milli)]))
       [] operation = "draw_rectangle" ->
            Call("draw_rectangle",
                 Styled([corner1 |-> Get("corner1", <<0, 0>>),
                         corner2 |->
                           Get("corner2", <<100 * Milli, 100 * Milli>>)]))
       [] operation = "draw_polyline" ->
            Call("draw_polyline",
                 Styled([points |->
                           Get("points",
                               << <<0, 0>>, <<100 * Milli, 0>>,
                                  <<100 * Milli, 100 * Milli>> >>),
                         closed |-> Get("closed", FALSE),
                         lineweight |-> Get("lineweight", 0)]))
       [] operation = "draw_text" ->
            Call("draw_text",
                 Styled([position |-> Get("position", <<0, 0>>),
                         text |-> Get("text", <<"T", "e", "x", "t">>),
                         height |-> Get("height", (5 * Milli) \div 2),
                         rotation |-> Get("rotation", 0)]))
       [] operation = "draw_arc" ->
            Call("draw_arc",
                 Styled([center |-> Get("center", <<0, 0>>),
                         radius |-> Get("radius", 50 * Milli),
                         start_angle |-> Get("start_angle", 0),
                         end_angle |-> Get("end_angle", 90 * Milli)]))
       [] operation = "draw_ellipse" ->
            Call("draw_ellipse",
                 Styled([center |-> Get("center", <<0, 0>>),
                         major_axis |-> Get("major_axis", 100 * Milli),
                         minor_axis |-> Get("minor_axis", 50 * Milli)]))
       [] operation = "draw_hatch" ->
            Call("draw_hatch",
                 Styled([boundary_points |->
                           Get("boundary_points",
                               << <<0, 0>>, <<100 * Milli, 0>>,
                                  <<100 * Milli, 100 * Milli>>,
                                  <<0, 100 * Milli>> >>),
                         pattern |-> Get("pattern", "SOLID")]))
       [] operation = "create_layer" ->
            Call("create_layer",
                 [name |-> Get("name", <<"N", "e", "w", "L", "a", "y", "e", "r">>),
                  color |-> Get("color", "white"),
                  lineweight |-> Get("lineweight", 0)])
       [] operation = "delete_layer" ->
            Call("delete_layer", [name |-> Get("name", <<"0">>)])
       [] operation = "rename_layer" ->
            Call("rename_layer",
                 [old_name |-> Get("old_name", <<"0">>),
                  new_name |->
                    Get("new_name",
                        <<"R", "e", "n", "a", "m", "e", "d", "L", "a", "y",
                          "e", "r">>)])
       [] operation = "turn_layer_on" ->
            Call("turn_on_layer", [name |-> Get("name", <<"0">>)])
       [] operation = "turn_layer_off" ->
            Call("turn_off_layer", [name |-> Get("name", <<"0">>)])
       [] operation = "list_layers" -> Call("list_layers", <<>>)
       [] OTHER -> Call("NLPParseError", <<>>)

\* execute_natural_command(command) after its call of parse_command: the
\* adapter call for the command, or the error of the parser passed on by
\* the cad_tool wrapper.
ExecuteNaturalCommand ==
  /\ pc = "done"
  /\ backend' = IF result.status = "ok" THEN execute_natural_command(result)
                ELSE [method |-> "CADOperationError", args |-> <<>>]
  /\ pc' = "executed"
  /\ UNCHANGED <<strict_mode, text, result, instance, calls, manager_vars>>

NextExecute == ParseCommand \/ ExecuteNaturalCommand

(***************************************************************************)
(* The adapter manager (src/src/mcp_tools/adapter_manager.py) and the      *)
(* connection tools (src/src/mcp_tools/tools/connection.py).  A dict is a  *)
(* sequence of [key, adapter] in insertion order; adapters are numbered    *)
(* from 1 in the order of their connection, 0 is no adapter.               *)
(***************************************************************************)
\* cad_priorities of auto_detect_cad.
CadPriorities == <<"zwcad", "autocad", "bricscad", "gcad">>

\* d[key], or 0 when key is not in d.
Lookup(d, key) ==
  IF \E i \in DOMAIN d : d[i].key = key
    THEN d[CHOOSE i \in DOMAIN d : d[i].key = key].adapter
  ELSE 0

\* d after d[key] = adapter: an existing key keeps its place.
Store(d, key, adapter) ==
  IF \E i \in DOMAIN d : d[i].key = key
    THEN [i \in DOMAIN d |->
            IF d[i].key = key THEN [key |-> key, adapter |-> adapter]
            ELSE d[i]]
  ELSE Append(d, [key |-> key, adapter |-> adapter])

\* get_active_cad_type(requested_cad_type): the type to use and the value
\* of _active_cad_type after the call.
get_active_cad_type(requested) ==
  LET live == {i \in DOMAIN cad_instances :
                 cad_instances[i].adapter \in connected}
      first == cad_instances[CHOOSE i \in live : \A k \in live : i <= k].key
  IN IF requested # None
       THEN [resolved |-> requested, active |-> active_cad_type]
     ELSE IF /\ active_cad_type # None
             /\ Lookup(cad_instances, active_cad_type) \in connected
       THEN [resolved |-> active_cad_type, active |-> active_cad_type]
     ELSE IF live # {} THEN [resolved |-> first, active |-> first]
     ELSE [resolved |-> "autocad", active |-> active_cad_type]

\* connect_cad(cad_type); ok says whether adapter.connect() succeeds.
ConnectCad(cad_type, ok) ==
  /\ ok => created < MaxAdapters
  /\ IF Lookup(cad_instances, cad_type) \in connected \/ ~ok
       THEN UNCHANGED <<cad_instances, connected, created>>
     ELSE /\ created' = created + 1
          /\ connected' = connected \cup {created + 1}
          /\ cad_instances' = Store(cad_instances, cad_type, created + 1)
  /\ returned' = NoReturn
  /\ UNCHANGED <<strict_mode, text, pc, result, instance, calls, backend,
                 active_cad_type, adapter_cache>>

\* disconnect_cad(cad_type).
DisconnectCad(cad_type) ==
  /\ connected' = connected \ {Lookup(cad_instances, cad_type)}
  /\ cad_instances' =
       SelectSeq(cad_instances, LAMBDA entry : entry.key # cad_type)
  /\ returned' = NoReturn
  /\ UNCHANGED <<strict_mode, text, pc, result, instance, calls, backend,
                 active_cad_type, adapter_cache, created>>

\* auto_detect_cad(); available are the types whose connect() succeeds.
AutoDetectCad(available) ==
  LET found == {i \in DOMAIN CadPriorities : CadPriorities[i] \in available}
      cad_type == CadPriorities[CHOOSE i \in found : \A k \in found : i <= k]
  IN /\ found # {} => created < MaxAdapters
     /\ IF found = {}
          THEN UNCHANGED <<cad_instances, connected, created,
                           active_cad_type>>
        ELSE /\ created' = created + 1
             /\ connected' = connected \cup {created + 1}
             /\ cad_instances' = Store(cad_instances, cad_type, created + 1)
             /\ active_cad_type' = cad_type
     /\ returned' = NoReturn
     /\ UNCHANGED <<strict_mode, text, pc, result, instance, calls, backend,
                    adapter_cache>>

\* get_adapter(cad_type) under @lru_cache(maxsize=4); ok says whether
\* adapter.connect() succeeds when the body comes to it.
GetAdapter(cad_type, ok) ==
  LET cached == Lookup(adapter_cache, cad_type)
      others == SelectSeq(adapter_cache, LAMBDA entry : entry.key # cad_type)
      Cached(adapter) ==
        Append(IF Len(others) = 4 THEN Tail(others) ELSE others,
               [key |-> cad_type, adapter |-> adapter])
      Return(resolved, adapter) ==
        [cad_type |-> cad_type, resolved |-> resolved, adapter |-> adapter,
         raised |-> FALSE]
      Body(g, stored) ==
        IF stored \in connected
          THEN /\ active_cad_type' = g.resolved
               /\ adapter_cache' = Cached(stored)
               /\ returned' = Return(g.resolved, stored)
               /\ UNCHANGED <<cad_instances, connected, created>>
        ELSE IF ok
          THEN /\ created < MaxAdapters
               /\ created' = created + 1
               /\ connected' = connected \cup {created + 1}
               /\ cad_instances' =
                    Store(cad_instances, g.resolved, created + 1)
               /\ active_cad_type' = g.resolved
               /\ adapter_cache' = Cached(created + 1)
               /\ returned' = Return(g.resolved, created + 1)
        ELSE /\ active_cad_type' = g.active
             /\ returned' = [cad_type |-> cad_type, resolved |-> g.resolved,
                             adapter |-> 0, raised |-> TRUE]
             /\ UNCHANGED <<cad_instances, connected, created, adapter_cache>>
  IN /\ IF cached # 0
          THEN /\ adapter_cache' = Cached(cached)
               /\ returned' =
                    Return(get_active_cad_type(cad_type).resolved, cached)
               /\ UNCHANGED <<cad_instances, connected, created,
                              active_cad_type>>
        ELSE Body(get_active_cad_type(cad_type),
                  Lookup(cad_instances,
                         get_active_cad_type(cad_type).resolved))
     /\ UNCHANGED <<strict_mode, text, pc, result, instance, calls, backend>>

\* One call of a connection tool or of get_adapter, for AutoCAD, ZWCAD or
\* no type given.
NextAdapters ==
  \/ \E t \in {"autocad", "zwcad"} : \E ok \in BOOLEAN : ConnectCad(t, ok)
  \/ \E t \in {"autocad", "zwcad"} : DisconnectCad(t)
  \/ \E available \in SUBSET {"autocad", "zwcad"} : AutoDetectCad(available)
  \/ \E t \in {None, "autocad", "zwcad"} : \E ok \in BOOLEAN :
       GetAdapter(t, ok)

\* The server after import, then calls of the connection tools and of
\* get_adapter.
SpecAdapters == InitWith({<<>>}) /\ [][NextAdapters]_vars

(***************************************************************************)
(* Families of input texts and the specifications over them.               *)
(***************************************************************************)
\* Fragments of layer-creation, layer-deletion and draw instructions.
LayerFragments ==
  { <<"c", "r", "e", "a", "t", "e">>,
    <<"d", "r", "a", "w">>,
    <<"d", "e", "l", "e", "t", "e">>,
    <<"l", "a", "y", "e", "r">>,
    <<"c", "i", "r", "c", "l", "e">>,
    <<"r", "e", "d">>,
    <<"W", "a", "l", "l", "s">>,
    <<"a", "d", "d", "e", "d">>,
    <<"o", "n", " ", "l", "a", "y", "e", "r", " ", "W", "a", "l", "l", "s">> }

\* Fragments of the other layer-management instructions.
ManageFragments ==
  { <<"r", "e", "n", "a", "m", "e">>,
    <<"t", "u", "r", "n", " ", "o", "n">>,
    <<"h", "i", "d", "e">>,
    <<"l", "i", "s", "t">>,
    <<"l", "a", "y", "e", "r", "s">>,
    <<"l", "a", "y", "e", "r">>,
    <<"W", "a", "l", "l", "s">>,
    <<"W", "a", "l", "l", "s", " ", "t", "o", " ", "D", "o", "o", "r", "s">>,
    <<"r", "e", "m", "o", "v", "e">> }

\* Fragments naming shapes, alone or inside longer words.
ShapeFragments ==
  { <<"d", "r", "a", "w">>,
    <<"l", "i", "n", "e">>,
    <<"p", "o", "l", "y", "l", "i", "n", "e">>,
    <<"p", "o", "l", "y", "g", "o", "n">>,
    <<"r", "e", "c", "t", "a", "n", "g", "l", "e">>,
    <<"e", "l", "l", "i", "p", "s", "e">>,
    <<"h", "a", "t", "c", "h">>,
    <<"o", "u", "t", "l", "i", "n", "e">>,
    <<"a", "t", " ", "1", ",", "2">> }

\* Fragments of instructions whose shapes take lists of points.
PointFragments ==
  { <<"l", "i", "n", "e">>,
    <<"r", "e", "c", "t">>,
    <<"p", "o", "l", "y", "l", "i", "n", "e">>,
    <<"f", "i", "l", "l">>,
    <<"s", "o", "l", "i", "d">>,
    <<"t", "o">>,
    <<"0", ",", "0">>,
    <<"5", ",", "7">>,
    <<"9", ",", "9", ";">> }

\* Fragments of circle and arc instructions.
RoundFragments ==
  { <<"c", "i", "r", "c", "l", "e">>,
    <<"a", "r", "c">>,
    <<"a", "t", " ", "1", ",", "2">>,
    <<"r", "a", "d", "i", "u", "s", " ", "5">>,
    <<"r", "=", "5", " ", "a", "t", " ", "1", ",", "2">>,
    <<"s", "t", "a", "r", "t", " ", "1", "0", " ", "e", "n", "d", " ", "2", "0">>,
    <<"a", "n", "g", "l", "e", " ", "3", "0">>,
    <<"e", "n", "d", " ", "2", "0">> }

\* Fragments of ellipse and text instructions.
TextFragments ==
  { <<"e", "l", "l", "i", "p", "s", "e">>,
    <<"n", "o", "t", "e">>,
    <<"t", "e", "x", "t", " ", "\"", "H", "i", "\"", " ", "a", "t", " ", "1", ",", "2">>,
    <<"a", "t", " ", "1", ",", "2">>,
    <<"r", "a", "t", "i", "o", " ", "0", ".", "3">>,
    <<"r", "a", "t", "i", "o", " ", "1", ".", "5">>,
    <<"h", "e", "i", "g", "h", "t", " ", "3">>,
    <<"r", "o", "t", "a", "t", "i", "o", "n", " ", "1", "5">> }

\* Fragments of instructions of the families without a parser.
OtherFragments ==
  { <<"e", "r", "a", "s", "e">>,
    <<"m", "o", "v", "e">>,
    <<"r", "o", "t", "a", "t", "e">>,
    <<"r", "e", "s", "i", "z", "e", "d">>,
    <<"m", "e", "a", "s", "u", "r", "e">>,
    <<"c", "i", "r", "c", "l", "e">>,
    <<"a", "t", " ", "1", ",", "2">>,
    <<"l", "a", "y", "e", "r">>,
    <<"d", "r", "a", "w">> }

\* Layer-management phrasings, a documented creation form and layer names.
PhraseFragments ==
  { <<"t", "u", "r", "n", " ", "o", "n", " ", "l", "a", "y", "e", "r">>,
    <<"t", "u", "r", "n", " ", "o", "f", "f", " ", "l", "a", "y", "e", "r">>,
    <<"s", "h", "o", "w", " ", "l", "a", "y", "e", "r">>,
    <<"h", "i", "d", "e", " ", "l", "a", "y", "e", "r">>,
    <<"d", "e", "l", "e", "t", "e", " ", "l", "a", "y", "e", "r">>,
    <<"l", "i", "s", "t", " ", "l", "a", "y", "e", "r", "s">>,
    <<"r", "e", "n", "a", "m", "e">>,
    <<"c", "r", "e", "a", "t", "e", " ", "a", " ", "l", "a", "y", "e", "r", " ", "n", "a", "m", "e", "d">>,
    <<"W", "a", "l", "l", "s">>,
    <<"a", "d", "d", "e", "d">> }

\* Fragments of rename instructions with quoted and unquoted names.
RenameFragments ==
  { <<"r", "e", "n", "a", "m", "e">>,
    <<"r", "e", "n", "a", "m", "e", " ", "l", "a", "y", "e", "r", " ", "W", "a", "l", "l", "s", " ", "t", "o", " ", "D", "o", "o", "r", "s">>,
    <<"l", "a", "y", "e", "r">>,
    <<"l", "a", "y", "e", "r", "s">>,
    <<"W", "a", "l", "l", "s", " ", "t", "o", " ", "D", "o", "o", "r", "s">>,
    <<"\"", "O", "l", "d", "L", "a", "y", "e", "r", "\"">>,
    <<"'", "B", "2", "'">>,
    <<"O", "l", "d">>,
    <<"t", "o">> }

\* Fragments of draw instructions with and without the signals of the
\* confidence score.
ScoreFragments ==
  { <<"d", "r", "a", "w">>,
    <<"m", "a", "k", "e">>,
    <<"c", "r", "e", "a", "t", "e">>,
    <<"c", "i", "r", "c", "l", "e">>,
    <<"r", "o", "u", "n", "d">>,
    <<"h", "a", "t", "c", "h">>,
    <<"r", "e", "d">>,
    <<"r", "e", "d", " ", "c", "i", "r", "c", "l", "e">>,
    <<"a", "t", " ", "1", ",", "2">>,
    <<"a", "t", " ", "1", ",", "2", " ", "o", "n", " ", "l", "a", "y", "e", "r", " ", "W", "a", "l", "l", "s">>,
    <<"r", "a", "d", "i", "u", "s", " ", "5">> }

\* The texts a scored text is compared with: those of at most MaxBaseline
\* fragments.
MaxBaseline == 2

Baselines ==
  UNION { {Join(fs) : fs \in [1..n -> ScoreFragments]} : n \in 0..MaxBaseline }

\* Fragments of arc and text instructions with angles.
AngleFragments ==
  { <<"a", "r", "c">>,
    <<"a", "r", "c", " ", "a", "t", " ", "1", ",", "2", " ", "r", "a", "d", "i", "u", "s", " ", "5">>,
    <<"l", "a", "b", "e", "l", " ", "\"", "h", "i", "\"", " ", "s", "i", "z", "e", " ", "3", " ", "a", "t", " ", "1", ",", "2">>,
    <<"a", "n", "g", "l", "e", " ", "3", "0">>,
    <<"s", "t", "a", "r", "t", " ", "a", "n", "g", "l", "e", " ", "4", "5">>,
    <<"e", "n", "d", " ", "a", "n", "g", "l", "e", " ", "9", "0">>,
    <<"s", "t", "a", "r", "t", " ", "1", "0">>,
    <<"e", "n", "d", " ", "6", "0">>,
    <<"r", "o", "t", "a", "t", "i", "o", "n", " ", "1", "5">> }

\* parse_command on instructions with angles.
SpecAngle == InitOver(AngleFragments) /\ [][Next]_vars

\* Fragments of instructions with colours.
ColourFragments ==
  { <<"c", "i", "r", "c", "l", "e">>,
    <<"d", "r", "a", "w">>,
    <<"c", "r", "e", "a", "t", "e", " ", "l", "a", "y", "e", "r", " ", "A">>,
    <<"B", "l", "u", "e">>,
    <<"r", "e", "d">>,
    <<"g", "r", "e", "y">>,
    <<"o", "r", "a", "n", "g", "e">>,
    <<"c", "o", "l", "o", "u", "r", "e", "d">>,
    <<"y", "e", "l", "l", "o", "w">> }

\* parse_command on instructions with colours.
SpecColour == InitOver(ColourFragments) /\ [][Next]_vars

\* Fragments of circle and arc instructions with radii.
RadiusFragments ==
  { <<"c", "i", "r", "c", "l", "e">>,
    <<"a", "r", "c">>,
    <<"a", "t", " ", "1", ",", "2">>,
    <<"r", "a", "d", "i", "u", "s", " ", "5">>,
    <<"r", " ", "=", " ", "7">>,
    <<"r", ":", "3">>,
    <<"c", "e", "n", "t", "e", "r", " ", "1", "0", ",", "2", "0">>,
    <<"d", "i", "a", "m", "e", "t", "e", "r", " ", "8">> }

\* parse_command on circle and arc instructions with radii.
SpecRadius == InitOver(RadiusFragments) /\ [][Next]_vars

\* Fragments of hatch instructions.
HatchFragments ==
  { <<"h", "a", "t", "c", "h">>,
    <<"f", "i", "l", "l">>,
    <<"p", "a", "t", "t", "e", "r", "n">>,
    <<"1", ",", "1", " ", "2", ",", "2", " ", "3", ",", "3">>,
    <<"s", "o", "l", "i", "d">>,
    <<"A", "n", "g", "l", "e">>,
    <<"c", "r", "o", "s", "s">>,
    <<"b", "r", "i", "c", "k">>,
    <<"c", "r", "o", "s", "s", "h", "a", "t", "c", "h", "e", "d">> }

\* parse_command on hatch instructions.
SpecHatch == InitOver(HatchFragments) /\ [][Next]_vars

\* Texts of the callers that run concurrently.
CallTexts ==
  { <<"c", "i", "r", "c", "l", "e">>,
    <<"c", "i", "r", "c", "l", "e", " ", "a", "t", " ", "1", ",", "2", " ", "r", "a", "d", "i", "u", "s", " ", "5">>,
    <<"c", "r", "e", "a", "t", "e", " ", "l", "a", "y", "e", "r", " ", "A">>,
    <<"m", "o", "v", "e", " ", "c", "i", "r", "c", "l", "e">> }

\* One step of one of the callers of parse_command.
NextConcurrent ==
  \/ ParseCommand
  \/ \E c \in 1..MaxCallers : \E t \in CallTexts : Enter(c, t)
  \/ \E c \in 1..MaxCallers : Identify(c)
  \/ \E c \in 1..MaxCallers : Finish(c)
  \/ \E c \in 1..MaxCallers : Leave(c)

\* Concurrent calls of parse_command on one NLPProcessor instance.
SpecConcurrent == InitWith(CallTexts) /\ [][NextConcurrent]_vars

\* execute_natural_command on shape, ellipse, text and layer instructions.
SpecExecute ==
  /\ \/ InitOver(ShapeFragments)
     \/ InitOver(TextFragments)
     \/ InitOver(PhraseFragments)
  /\ [][NextExecute]_vars

InitLayer == InitOver(LayerFragments) \/ InitOver(ManageFragments)

InitShape == InitOver(ShapeFragments)

InitDraw ==
  \/ InitOver(PointFragments)
  \/ InitOver(RoundFragments)
  \/ InitOver(TextFragments)

\* Layer-management instructions and draw instructions naming a layer.
SpecLayer == InitLayer /\ [][Next]_vars

\* Instructions naming shapes.
SpecShape == InitShape /\ [][Next]_vars

\* Draw instructions with their parameters.
SpecDraw == InitDraw /\ [][Next]_vars

InitOther == InitOver(OtherFragments)

\* Instructions of the erase, move, rotate, scale and dimension families.
SpecOther == InitOther /\ [][Next]_vars

InitPhrase == InitOver(PhraseFragments)

\* Instructions combining several layer-management phrasings.
SpecPhrase == InitPhrase /\ [][Next]_vars

InitRename == InitOver(RenameFragments)

\* Rename instructions.
SpecRename == InitRename /\ [][Next]_vars

InitScore == InitOver(ScoreFragments)

\* Draw instructions scored by the confidence estimator.
SpecScore == InitScore /\ [][Next]_vars

Init ==
  \/ InitLayer
  \/ InitShape
  \/ InitDraw
  \/ InitOther
  \/ InitPhrase
  \/ InitRename
  \/ InitScore

Spec == Init /\ [][Next]_vars

(***************************************************************************)
(* Vocabulary of the properties.  The words of a text are its              *)
(* whitespace-delimited tokens; `done` is the state in which the call has  *)
(* returned or raised.                                                     *)
(***************************************************************************)
Operations ==
  {"draw_line", "draw_circle", "draw_arc", "draw_rectangle", "draw_polyline",
   "draw_ellipse", "draw_text", "draw_hatch", "create_layer", "delete_layer",
   "rename_layer", "turn_layer_on", "turn_layer_off", "list_layers"}

DrawOperations ==
  {"draw_line", "draw_circle", "draw_arc", "draw_rectangle", "draw_polyline",
   "draw_ellipse", "draw_text", "draw_hatch"}

LayerFamilies == {"layer", "rename", "turn_on", "turn_off"}

\* The failures of an unrecognised command or shape family.
RecognitionErrors ==
  {"Cannot identify command type", "Cannot identify shape type",
   "not yet supported"}

\* The failures of a layer command whose names cannot be extracted.
LayerNameErrors ==
  {"Cannot extract layer name", "Cannot extract old and new layer names"}

K_layer == <<"l", "a", "y", "e", "r">>

CreationVerbs == { <<"c", "r", "e", "a", "t", "e">>, <<"m", "a", "k", "e">>, <<"a", "d", "d">> }

DrawVerbs == CreationVerbs \cup { <<"d", "r", "a", "w">> }

DeletionVerbs == { <<"d", "e", "l", "e", "t", "e">>, <<"r", "e", "m", "o", "v", "e">>, <<"e", "r", "a", "s", "e">> }

Done == pc = "done"

Returned == Done /\ result.status = "ok"

Raised == Done /\ result.status = "error"

\* The words of a text: its whitespace-delimited tokens.
WordsOf(t) == Split(t, 1)

\* A creation verb is followed, later in the text, by the word layer.
VerbThenLayer(words) ==
  \E i, j \in DOMAIN words :
    i < j /\ words[i] \in CreationVerbs /\ words[j] = K_layer

\* The shapes one of whose keywords is a word of the text.
WordShapes(words) ==
  { s \in Range(ShapeOrder) :
      \E k \in DOMAIN words : words[k] \in Range(SHAPE_KEYWORDS[s]) }

\* The result is draw_<shape> for one of the given shapes.
ReturnedDrawOf(shapes) ==
  /\ Returned
  /\ \E s \in shapes : result.operation = "draw_" \o s

\* The call failed because a required field has no match (strict mode).
RaisedMissingParameter ==
  Raised /\ strict_mode /\ result.error = "Cannot extract"

\* The value of a match, else the given default.
Pick(m, default) == IF m.ok THEN m.val ELSE default

(***************************************************************************)
(* C1                                                                      *)
(***************************************************************************)
\* C1: whenever parse_command returns a ParsedCommand, in strict or in
\* lenient mode, its operation is one of the fourteen operations of the
\* vocabulary; no other operation value is produced.
C1_OperationInVocabulary == Returned => result.operation \in Operations

\* A layer is switched off: one of the operations has been returned.
C1_Witness ==
  Returned /\ result.operation = "turn_layer_off" /\ text # <<>>

RequiredMatched(operation, tl, t) ==
  LET coords == CoordFindAll(tl, 1)
  IN CASE operation \in {"draw_line", "draw_rectangle"} -> Len(coords) >= 2
       [] operation = "draw_circle" ->
            FirstCoord(tl).ok /\ RadiusMatch(tl).ok
       [] operation = "draw_arc" ->
            /\ FirstCoord(tl).ok
            /\ RadiusMatch(tl).ok
            /\ AngleMatch(tl, K_start).ok
            /\ AngleMatch(tl, K_end).ok
       [] operation = "draw_polyline" -> coords # <<>>
       [] operation = "draw_ellipse" ->
            FirstCoord(tl).ok /\ RatioMatch(tl).ok
       [] operation = "draw_text" ->
            /\ FirstCoord(tl).ok
            /\ TextContentMatch(t).ok
            /\ HeightMatch(tl).ok
            /\ AngleMatch(tl, K_rotation).ok
       [] operation = "draw_hatch" ->
            coords # <<>> /\ FirstPattern(tl, HatchPatterns).ok

\* C3: in strict mode a draw instruction returns a ParsedCommand only if
\* every required extractor of the identified shape found its own match in
\* the text; when one did not, the whole call fails, and it fails for a
\* missing parameter only then.
C3_StrictRequiresEveryMatch ==
  (Done /\ strict_mode) =>
    LET tl == Lower(text)
        shape == identify_shape_type(tl)
    IN IF result.status = "ok"
         THEN result.operation \in DrawOperations =>
                RequiredMatched(result.operation, tl, text)
         ELSE LET missing == /\ ResolvedCommandType(tl) = "draw"
                             /\ shape # None
                             /\ ~RequiredMatched("draw_" \o shape, tl, text)
              IN result.error = "Cannot extract" <=> missing

\* A strict arc instruction with centre, radius and both angles returns.
C3_Witness ==
  /\ Returned
  /\ strict_mode
  /\ result.operation = "draw_arc"
  /\ result.parameters.center = <<1 * Milli, 2 * Milli>>
  /\ result.parameters.radius = 5 * Milli
  /\ result.parameters.start_angle = 10 * Milli
  /\ result.parameters.end_angle = 20 * Milli

(***************************************************************************)
(* C4                                                                      *)
(***************************************************************************)
\* The word layer is followed by a word that begins a layer name.
NameAfterLayer(words) ==
  \E j \in DOMAIN words :
    /\ words[j] = K_layer
    /\ j < Len(words)
    /\ words[j + 1][1] \in NameChars

OnLayerDrawText(words, tl) ==
  /\ \E j \in DOMAIN words : words[j] = K_layer
  /\ \E k \in DOMAIN words : words[k] \in DrawVerbs
  /\ WordShapes(words) # {}
  /\ \A j \in DOMAIN words :
       Contains(words[j], K_layer) =>
         /\ words[j] = K_layer
         /\ j > 1
         /\ j < Len(words)
         /\ words[j - 1] = <<"o", "n">>
  /\ ~Contains(tl, <<"r", "e", "n", "a", "m", "e">>)
  /\ ~Contains(tl, <<"c", "h", "a", "n", "g", "e", " ", "n", "a", "m", "e">>)

\* C5 as stated: when the word layer occurs in a draw instruction only as
\* an "on layer X" modifier (a draw-family verb draw/create/make/add and a
\* shape keyword, no layer-management phrasing), parse_command returns the
\* draw_<shape> operation and not a layer-management operation.
C5_OnLayerModifierDraws ==
  Done =>
    LET tl == Lower(text)
        words == WordsOf(tl)
    IN OnLayerDrawText(words, tl) => ReturnedDrawOf(WordShapes(words))

\* C5 amended: when, in addition, no creation verb (create, make, add)
\* precedes the word layer, parse_command returns the draw_<shape>
\* operation in lenient mode, and in strict mode returns it or fails for a
\* missing required parameter; it never returns a layer-management
\* operation.
C5_OnLayerModifierWithoutCreationVerb ==
  Done =>
    LET tl == Lower(text)
        words == WordsOf(tl)
        drawn == ReturnedDrawOf(WordShapes(words))
    IN (OnLayerDrawText(words, tl) /\ ~VerbThenLayer(words)) =>
         /\ drawn \/ RaisedMissingParameter
         /\ ~strict_mode => drawn

\* "draw circle on layer Walls" has been parsed to draw_circle.
C5_Witness ==
  /\ Returned
  /\ result.operation = "draw_circle"
  /\ OnLayerDrawText(WordsOf(Lower(text)), Lower(text))
  /\ ~VerbThenLayer(WordsOf(Lower(text)))

(***************************************************************************)
(* C6                                                                      *)
(***************************************************************************)
\* Position of the verb of the first "(delete|remove|erase) layer <name>"
\* of the text, 0 when there is none.
DeleteLayerAt(words) ==
  LET S == { i \in DOMAIN words :
               /\ i + 2 <= Len(words)
               /\ words[i] \in DeletionVerbs
               /\ words[i + 1] = K_layer
               /\ \A k \in DOMAIN words[i + 2] : words[i + 2][k] \in NameChars }
  IN IF S = {} THEN 0 ELSE Min(S)

\* No classifier rule earlier than the deletion rule matches: no creation
\* verb before the word layer, no rename phrase, no turn on/off or
\* show/hide layer phrase.
NoEarlierLayerRule(words, tl) ==
  /\ ~VerbThenLayer(words)
  /\ ~Contains(tl, <<"r", "e", "n", "a", "m", "e">>)
  /\ ~Contains(tl, <<"c", "h", "a", "n", "g", "e", " ", "n", "a", "m", "e">>)
  /\ \A j \in DOMAIN words :
       (j < Len(words) /\ words[j + 1] = K_layer) =>
         words[j] \notin { <<"o", "n">>, <<"o", "f", "f">>, <<"s", "h", "o", "w">>, <<"u", "n", "h", "i", "d", "e">>, <<"h", "i", "d", "e">>,
                           <<"d", "i", "s", "a", "b", "l", "e">> }

\* C6: every text with the phrasing "(delete|remove|erase) layer <name>"
\* that matches no earlier classifier rule is parsed to delete_layer with
\* parameters name = <name>, whatever the characters of <name>; it is never
\* resolved to create_layer or another operation.
C6_DeleteLayerIsDelete ==
  Done =>
    LET tl == Lower(text)
        words == WordsOf(tl)
        at == DeleteLayerAt(words)
    IN (at # 0 /\ NoEarlierLayerRule(words, tl)) =>
         /\ result.status = "ok"
         /\ result.operation = "delete_layer"
         /\ result.parameters.name = WordsOf(text)[at + 2]

(***************************************************************************)
(* C7                                                                      *)
(***************************************************************************)
\* Length of the longest keyword of a shape.
LongestKeyword(s) == MaxKeywordLen(SHAPE_KEYWORDS[s])

\* C7: shape classification returns, among the shapes with a keyword
\* occurring as a whole word of the text, one whose keyword set has the
\* longest member; a keyword occurring only inside a longer word does not
\* match; a text with the word polyline or polygon and no rectangle keyword
\* yields draw_polyline and never draw_line.
C7_LongestKeywordShapeWins ==
  Done =>
    LET tl == Lower(text)
        shapes == WordShapes(WordsOf(tl))
        shape == identify_shape_type(tl)
    IN ResolvedCommandType(tl) = "draw" =>
         /\ shapes = {} =>
              /\ shape = None
              /\ Raised
              /\ result.error = "Cannot identify shape type"
         /\ shapes # {} =>
              /\ shape \in shapes
              /\ \A o \in shapes : LongestKeyword(o) <= LongestKeyword(shape)
              /\ Returned \/ RaisedMissingParameter
              /\ Returned => result.operation = "draw_" \o shape
         /\ ("polyline" \in shapes /\ "rectangle" \notin shapes) =>
              /\ result.operation # "draw_line"
              /\ Returned => result.operation = "draw_polyline"

\* "line polyline" has been parsed to draw_polyline.
C7_Witness ==
  /\ Returned
  /\ result.operation = "draw_polyline"
  /\ {"line", "polyline"} \subseteq WordShapes(WordsOf(Lower(text)))

(***************************************************************************)
(* C8                                                                      *)
(***************************************************************************)
\* A word <digits>,<digits>, possibly with a semicolon after it.
IsPairWord(w) ==
  LET c == SkipDigits(w, 1)
      e == SkipDigits(w, c + 1)
  IN /\ c > 1
     /\ CharAt(w, c) = ","
     /\ e > c + 1
     /\ e = Len(w) + 1 \/ (e = Len(w) /\ w[e] = ";")

\* The coordinate pair such a word denotes.
PairOf(w) ==
  LET c == SkipDigits(w, 1)
  IN <<DigitsValue(w, 1, c) * Milli,
       DigitsValue(w, c + 1, SkipDigits(w, c + 1)) * Milli>>

\* The coordinate pairs among the words, in their order of occurrence.
WordPairs(words) ==
  LET ws == SelectSeq(words, IsPairWord)
  IN [k \in DOMAIN ws |-> PairOf(ws[k])]

\* The pairs of a returned line or rectangle are the first two of the text,
\* those of a polyline or hatch all of them.
PairsInTextOrder(pairs) ==
  LET p == result.parameters IN
  /\ (result.operation = "draw_line" /\ Len(pairs) >= 2) =>
       p.start = pairs[1] /\ p.end = pairs[2]
  /\ (result.operation = "draw_rectangle" /\ Len(pairs) >= 2) =>
       p.corner1 = pairs[1] /\ p.corner2 = pairs[2]
  /\ (result.operation = "draw_polyline" /\ pairs # <<>>) =>
       p.points = pairs
  /\ (result.operation = "draw_hatch" /\ pairs # <<>>) =>
       p.boundary_points = pairs

\* No pair is joined to a following number by a comma or a semicolon.
PairsSeparatedByBlanks(words) ==
  \A j \in DOMAIN words :
    (j < Len(words) /\ IsPairWord(words[j])) =>
      \/ words[j][Len(words[j])] \notin {",", ";"}
      \/ words[j + 1][1] \notin Digits \cup {"+", "-", ".", ",", ";"}

\* C8 as stated: coordinate pairs are extracted in their order of
\* occurrence; with at least two pairs in the text a line or rectangle gets
\* the first as start/corner1 and the second as end/corner2, regardless of
\* the words or separators around the pairs, and a polyline or hatch gets
\* every pair of the text in text order.
C8_PairsInOrderWhateverSeparators ==
  Returned => PairsInTextOrder(WordPairs(WordsOf(Lower(text))))

\* C8 amended: the same holds for every text in which no pair is joined to
\* a following number by a comma or a semicolon (such a number is read as
\* the third coordinate of the pair and the pair after it is lost).
C8_PairsInOrderBetweenBlanks ==
  Returned =>
    LET words == WordsOf(Lower(text))
    IN PairsSeparatedByBlanks(words) => PairsInTextOrder(WordPairs(words))

\* "line 5,7 0,0": the start is the first pair, the end the second.
C8_Witness ==
  /\ Returned
  /\ result.operation = "draw_line"
  /\ LET words == WordsOf(Lower(text))
         pairs == WordPairs(words)
     IN /\ PairsSeparatedByBlanks(words)
        /\ Len(pairs) >= 2
        /\ pairs[1] # pairs[2]
        /\ result.parameters.start = pairs[1]
        /\ result.parameters.end = pairs[2]

(***************************************************************************)
(* C9                                                                      *)
(***************************************************************************)
\* Every field of a returned draw command other than the points of a line
\* or rectangle is the value of its own match in the lowercase text tl
\* (the text content: in the text as written), else its table default.
FieldsMatchedOrDefault(tl, coords) ==
  LET p == result.parameters
      center == Pick(FirstCoord(tl), <<0, 0>>)
      ratio == Pick(RatioMatch(tl), Milli \div 2)
  IN CASE result.operation = "draw_circle" ->
            /\ p.center = center
            /\ p.radius = Pick(RadiusMatch(tl), 50 * Milli)
       [] result.operation = "draw_arc" ->
            /\ p.center = center
            /\ p.radius = Pick(RadiusMatch(tl), 50 * Milli)
            /\ p.start_angle = Pick(AngleMatch(tl, K_start), 0)
            /\ p.end_angle = Pick(AngleMatch(tl, K_end), 0)
       [] result.operation = "draw_polyline" ->
            p.points = IF coords # <<>> THEN coords ELSE DefaultSquare
       [] result.operation = "draw_hatch" ->
            /\ p.boundary_points = IF coords # <<>> THEN coords
                                   ELSE DefaultSquare
            /\ p.pattern = Pick(FirstPattern(tl, HatchPatterns), "SOLID")
       [] result.operation = "draw_ellipse" ->
            /\ p.center = center
            /\ p.major_axis = Pick(FirstCoord(tl), <<50 * Milli, 0>>)
            /\ p.minor_ratio = IF ratio > Milli THEN Milli ELSE ratio
       [] result.operation = "draw_text" ->
            /\ p.position = center
            /\ p.text = Pick(TextContentMatch(text), <<"T", "e", "x", "t">>)
            /\ p.height = Pick(HeightMatch(tl), (5 * Milli) \div 2)
            /\ p.rotation = Pick(AngleMatch(tl, K_rotation), 0)
       [] OTHER -> TRUE

\* The two points of a returned line or rectangle.
TwoPoints ==
  IF result.operation = "draw_line"
    THEN <<result.parameters.start, result.parameters.end>>
    ELSE <<result.parameters.corner1, result.parameters.corner2>>

\* C9 as stated: in lenient mode default substitution is per field: each
\* required field of a draw command without a match takes exactly its table
\* default, while every field that has a match keeps its extracted value;
\* so the first point of a line or rectangle is the first pair of the text
\* when there is one and (0,0) otherwise, the second point the second pair
\* when there is one and (100,100) otherwise.
C9_DefaultsPerField ==
  (Returned /\ ~strict_mode /\ result.operation \in DrawOperations) =>
    LET tl == Lower(text)
        coords == CoordFindAll(tl, 1)
    IN /\ FieldsMatchedOrDefault(tl, coords)
       /\ result.operation \in {"draw_line", "draw_rectangle"} =>
            /\ TwoPoints[1] = IF Len(coords) >= 1 THEN coords[1]
                              ELSE <<0, 0>>
            /\ TwoPoints[2] = IF Len(coords) >= 2 THEN coords[2]
                              ELSE <<100 * Milli, 100 * Milli>>

\* C9 amended: in lenient mode every required field other than the two
\* points of a line or rectangle is substituted on its own (its extracted
\* value, a ratio above 1 being cut to 1, else its table default); the two
\* points of a line or rectangle are substituted together: both come from
\* the text when it has at least two pairs, and otherwise both are the
\* defaults (0,0) and (100,100), a single pair in the text being dropped.
C9_DefaultsPerExtractor ==
  (Returned /\ ~strict_mode /\ result.operation \in DrawOperations) =>
    LET tl == Lower(text)
        coords == CoordFindAll(tl, 1)
    IN /\ FieldsMatchedOrDefault(tl, coords)
       /\ result.operation \in {"draw_line", "draw_rectangle"} =>
            TwoPoints = IF Len(coords) >= 2 THEN <<coords[1], coords[2]>>
                        ELSE << <<0, 0>>, <<100 * Milli, 100 * Milli>> >>

\* A lenient line with a single pair in the text takes both defaults, and
\* the pair is dropped.
C9_Witness ==
  /\ Returned
  /\ ~strict_mode
  /\ result.operation = "draw_line"
  /\ Len(CoordFindAll(Lower(text), 1)) = 1
  /\ result.parameters.start = <<0, 0>>
  /\ result.parameters.end = <<100 * Milli, 100 * Milli>>

(***************************************************************************)
(* C10                                                                     *)
(***************************************************************************)
\* No keyword of any command family occurs in the lowercase text tl.
NoFamilyKeyword(tl) ==
  \A f \in DOMAIN COMMAND_KEYWORDS : ~AnyKeywordIn(tl, COMMAND_KEYWORDS[f])

\* A failure carries no part of a result.
NoPartialResult ==
  result.operation = "" /\ result.parameters = <<>> /\ result.raw_text = <<>>

\* C10 as stated: when the text has no command-family keyword at all,
\* parse_command returns draw_<shape> if a shape keyword is present as a
\* word, and fails without any partial result if none is.
C10_NoVerbDefaultsToDraw ==
  Done =>
    LET tl == Lower(text)
        shapes == WordShapes(WordsOf(tl))
    IN NoFamilyKeyword(tl) =>
         IF shapes # {} THEN ReturnedDrawOf(shapes)
         ELSE Raised /\ NoPartialResult

\* C10 amended: when the text has no command-family keyword at all and a
\* shape keyword is present as a word, the family defaults to draw:
\* parse_command returns draw_<shape> in lenient mode, and in strict mode
\* returns it or fails for a missing required parameter; when no shape
\* keyword is present it fails, in both modes, without any partial result.
C10_NoVerbDefaultsToDrawOrMissing ==
  Done =>
    LET tl == Lower(text)
        shapes == WordShapes(WordsOf(tl))
    IN NoFamilyKeyword(tl) =>
         IF shapes # {}
           THEN /\ ReturnedDrawOf(shapes) \/ RaisedMissingParameter
                /\ ~strict_mode => ReturnedDrawOf(shapes)
           ELSE /\ Raised
                /\ result.error = "Cannot identify command type"
                /\ NoPartialResult

\* "polygon at 1,2", without a verb, has been parsed to draw_polyline in
\* strict mode.
C10_Witness ==
  /\ Returned
  /\ strict_mode
  /\ result.operation = "draw_polyline"
  /\ result.parameters.points = << <<1 * Milli, 2 * Milli>> >>
  /\ NoFamilyKeyword(Lower(text))

(***************************************************************************)
(* C11                                                                     *)
(***************************************************************************)
\* The families that _identify_command_type can return and parse_command
\* has no parser for.
UnsupportedFamilies == {"erase", "move", "rotate", "scale", "dimension"}

\* The words ws occur in the text as consecutive words.
WordPhrase(words, ws) ==
  \E j \in DOMAIN words :
    /\ j + Len(ws) - 1 <= Len(words)
    /\ \A k \in DOMAIN ws : words[j + k - 1] = ws[k]

\* The text has one of the layer-management phrasings of the classifier.
LayerPhrasing(words, tl) ==
  \/ VerbThenLayer(words)
  \/ /\ Contains(tl, K_layer)
     /\ \/ Contains(tl, <<"r", "e", "n", "a", "m", "e">>)
        \/ Contains(tl, <<"c", "h", "a", "n", "g", "e", " ", "n", "a", "m", "e">>)
        \/ WordPhrase(words, << <<"t", "u", "r", "n">>, <<"o", "n">>, K_layer >>)
        \/ WordPhrase(words, << <<"t", "u", "r", "n">>, <<"o", "f", "f">>, K_layer >>)
        \/ \E v \in { <<"s", "h", "o", "w">>, <<"u", "n", "h", "i", "d", "e">>, <<"h", "i", "d", "e">>, <<"d", "i", "s", "a", "b", "l", "e">> } \cup
                    DeletionVerbs :
             WordPhrase(words, <<v, K_layer>>)
        \/ \E v \in { <<"l", "i", "s", "t">>, <<"s", "h", "o", "w">> } :
             \E n \in {K_layer, <<"l", "a", "y", "e", "r", "s">> } :
               \/ WordPhrase(words, <<v, n>>)
               \/ WordPhrase(words, <<v, <<"a", "l", "l">>, n>>)

\* C11: a text with a keyword of the erase, move, rotate, scale or
\* dimension family, no draw-family keyword and no layer-management
\* phrasing is classified into one of these families and parse_command
\* fails: no ParsedCommand is returned, even when the text also names a
\* shape and coordinates.
C11_OtherFamiliesRefused ==
  Done =>
    LET tl == Lower(text)
        words == WordsOf(tl)
    IN ( /\ \E f \in UnsupportedFamilies :
              AnyKeywordIn(tl, COMMAND_KEYWORDS[f])
         /\ ~AnyKeywordIn(tl, COMMAND_KEYWORDS["draw"])
         /\ ~LayerPhrasing(words, tl) ) =>
         /\ identify_command_type(tl) \in UnsupportedFamilies
         /\ Raised
         /\ result.error = "not yet supported"
         /\ NoPartialResult

\* "move circle at 1,2" has been refused, whatever the mode.
C11_Witness ==
  /\ Raised
  /\ result.error = "not yet supported"
  /\ identify_command_type(Lower(text)) = "move"
  /\ "circle" \in WordShapes(WordsOf(Lower(text)))
  /\ FirstCoord(Lower(text)).ok

(***************************************************************************)
(* C12                                                                     *)
(***************************************************************************)
\* One of the verbs is directly followed by the word layer.
VerbLayer(words, verbs) ==
  \E v \in verbs : WordPhrase(words, <<v, K_layer>>)

TurnOnLayer(words) == WordPhrase(words, << <<"t", "u", "r", "n">>, <<"o", "n">>, K_layer >>)

TurnOffLayer(words) == WordPhrase(words, << <<"t", "u", "r", "n">>, <<"o", "f", "f">>, K_layer >>)

RenamePhrase(tl) == Contains(tl, <<"r", "e", "n", "a", "m", "e">>) \/ Contains(tl, <<"c", "h", "a", "n", "g", "e", " ", "n", "a", "m", "e">>)

\* "list/show [all] layer[s]".
ListPhrase(words) ==
  \E v \in { <<"l", "i", "s", "t">>, <<"s", "h", "o", "w">> } : \E n \in {K_layer, <<"l", "a", "y", "e", "r", "s">> } :
    WordPhrase(words, <<v, n>>) \/ WordPhrase(words, <<v, <<"a", "l", "l">>, n>>)

\* The family of the first matching phrasing in the order of the claim:
\* rename; turn on layer or show/unhide layer; turn off layer or
\* hide/disable layer; delete/remove/erase layer; list/show [all] layers.
FamilyInGroupedOrder(words, tl) ==
  IF RenamePhrase(tl) THEN "rename"
  ELSE IF TurnOnLayer(words) \/ VerbLayer(words, { <<"s", "h", "o", "w">>, <<"u", "n", "h", "i", "d", "e">> })
    THEN "turn_on"
  ELSE IF TurnOffLayer(words) \/ VerbLayer(words, { <<"h", "i", "d", "e">>, <<"d", "i", "s", "a", "b", "l", "e">> })
    THEN "turn_off"
  ELSE IF VerbLayer(words, DeletionVerbs) \/ ListPhrase(words) THEN "layer"
  ELSE None

\* The family of the first matching phrasing in the order rename; turn on
\* layer; turn off layer; show/unhide layer; hide/disable layer;
\* delete/remove/erase layer; list/show [all] layers.
FamilyInRuleOrder(words, tl) ==
  IF RenamePhrase(tl) THEN "rename"
  ELSE IF TurnOnLayer(words) THEN "turn_on"
  ELSE IF TurnOffLayer(words) THEN "turn_off"
  ELSE IF VerbLayer(words, { <<"s", "h", "o", "w">>, <<"u", "n", "h", "i", "d", "e">> }) THEN "turn_on"
  ELSE IF VerbLayer(words, { <<"h", "i", "d", "e">>, <<"d", "i", "s", "a", "b", "l", "e">> }) THEN "turn_off"
  ELSE IF VerbLayer(words, DeletionVerbs) \/ ListPhrase(words) THEN "layer"
  ELSE None

\* The operations a layer family is parsed to.
OperationsOf(family) ==
  CASE family = "rename" -> {"rename_layer"}
    [] family = "turn_on" -> {"turn_layer_on"}
    [] family = "turn_off" -> {"turn_layer_off"}
    [] family = "layer" -> {"create_layer", "delete_layer", "list_layers"}
    [] OTHER -> {}

\* The text mentions a layer, no creation verb precedes the word layer, and
\* when the phrasings say family, the classifier says so and a returned
\* result is an operation of that family.
ClassifiedAs(family, words, tl) ==
  (Contains(tl, K_layer) /\ ~VerbThenLayer(words) /\ family # None) =>
    /\ identify_command_type(tl) = family
    /\ Returned => result.operation \in OperationsOf(family)

\* C12 as stated: when a text mentioning a layer matches several
\* layer-management phrasings, the family is the first that matches in the
\* order rename; turn_on (turn on layer or show/unhide layer); turn_off
\* (turn off layer or hide/disable layer); delete; list.
C12_FirstPhrasingGrouped ==
  Done =>
    LET tl == Lower(text)
        words == WordsOf(tl)
    IN ClassifiedAs(FamilyInGroupedOrder(words, tl), words, tl)

\* C12 amended: the family is the first that matches in the order rename;
\* turn on layer; turn off layer; show/unhide layer; hide/disable layer;
\* delete/remove/erase layer; list/show [all] layers: "turn off layer" is
\* tested before "show layer".
C12_FirstPhrasingInRuleOrder ==
  Done =>
    LET tl == Lower(text)
        words == WordsOf(tl)
    IN ClassifiedAs(FamilyInRuleOrder(words, tl), words, tl)

\* A text with "show layer" and "turn off layer" has switched a layer off.
C12_Witness ==
  /\ Returned
  /\ result.operation = "turn_layer_off"
  /\ VerbLayer(WordsOf(Lower(text)), { <<"s", "h", "o", "w">> })
  /\ TurnOffLayer(WordsOf(Lower(text)))

(***************************************************************************)
(* C13                                                                     *)
(***************************************************************************)
\* The layer names of a returned layer command.
LayerNamesOf(r) ==
  IF r.operation = "rename_layer"
    THEN {r.parameters.old_name, r.parameters.new_name}
  ELSE IF r.operation \in {"create_layer", "delete_layer", "turn_layer_on",
                           "turn_layer_off"}
    THEN {r.parameters.name}
  ELSE {}

\* C13: every layer name returned by a layer command (name of create_layer,
\* delete_layer, turn_layer_on, turn_layer_off; old_name and new_name of
\* rename_layer) is copied from the text as written, with its case, and not
\* from the lowercased text.
C13_LayerNamesKeepCase ==
  Returned => \A name \in LayerNamesOf(result) : Contains(text, name)

(***************************************************************************)
(* C14                                                                     *)
(***************************************************************************)
\* Every character of the word can stand in an unquoted layer name.
IsNameWord(w) == w # <<>> /\ \A k \in DOMAIN w : w[k] \in NameChars

\* The text has the documented form "create a layer named X", X an
\* unquoted name.
CreateLayerNamedForm(words) ==
  /\ Len(words) = 5
  /\ SubSeq(words, 1, 4) = << <<"c", "r", "e", "a", "t", "e">>, <<"a">>, K_layer, <<"n", "a", "m", "e", "d">> >>
  /\ IsNameWord(words[5])

\* C14: for a text of the documented form "create a layer named X",
\* parse_command returns create_layer with parameters name = X.
C14_CreateLayerNamed ==
  (Done /\ CreateLayerNamedForm(WordsOf(Lower(text)))) =>
      /\ result.status = "ok"
      /\ result.operation = "create_layer"
      /\ result.parameters.name = WordsOf(text)[5]

(***************************************************************************)
(* C15                                                                     *)
(***************************************************************************)
\* A word that is a quoted string: a quote, characters other than quotes,
\* a quote.
IsQuotedWord(w) ==
  /\ Len(w) >= 3
  /\ w[1] \in Quotes
  /\ w[Len(w)] \in Quotes
  /\ \A k \in 2..(Len(w) - 1) : w[k] \notin Quotes

NoNames == [ok |-> FALSE, old |-> <<>>, new |-> <<>>]

Names(old, new) == [ok |-> TRUE, old |-> old, new |-> new]

\* The first two quoted strings of the text, in document order.
QuotedNames(words) ==
  LET qs == SelectSeq(words, IsQuotedWord)
      Inner(w) == SubSeq(w, 2, Len(w) - 1)
  IN IF Len(qs) >= 2 THEN Names(Inner(qs[1]), Inner(qs[2])) ELSE NoNames

\* The first "<old> to <new>" of the text, after the word layer when
\* afterLayer holds.
ToNames(words, afterLayer) ==
  LET S == { j \in DOMAIN words :
               /\ j + 2 <= Len(words)
               /\ IsNameWord(words[j])
               /\ words[j + 1] = <<"t", "o">>
               /\ IsNameWord(words[j + 2])
               /\ afterLayer => (j > 1 /\ words[j - 1] = K_layer) }
  IN IF S = {} THEN NoNames
     ELSE Names(words[Min(S)], words[Min(S) + 2])

\* The two names by priority: two quoted strings, else "layer <old> to
\* <new>", else a bare "<old> to <new>".
RenameNames(words) ==
  IF QuotedNames(words).ok THEN QuotedNames(words)
  ELSE IF ToNames(words, TRUE).ok THEN ToNames(words, TRUE)
  ELSE ToNames(words, FALSE)

\* The text is classified as a rename instruction.
RenameText(words, tl) ==
  RenamePhrase(tl) /\ Contains(tl, K_layer) /\ ~VerbThenLayer(words)

\* C15: rename_layer takes its two names, in priority order, from the
\* first two quoted strings in document order (old, new), else from a
\* "layer <old> to <new>" pattern, else from a bare "<old> to <new>"
\* pattern; the parameters of the result are exactly old_name and new_name;
\* the call fails when fewer than two names are found.  (The names are
\* those of the lowercased text.)
C15_RenameNamesByPriority ==
  Done =>
    LET tl == Lower(text)
        words == WordsOf(tl)
        names == RenameNames(words)
    IN RenameText(words, tl) =>
         IF names.ok
           THEN /\ result.status = "ok"
                /\ result.operation = "rename_layer"
                /\ DOMAIN result.parameters = {"old_name", "new_name"}
                /\ result.parameters.old_name = names.old
                /\ result.parameters.new_name = names.new
           ELSE /\ Raised
                /\ result.error = "Cannot extract old and new layer names"

\* Two quoted strings have been preferred to a "layer <old> to <new>" in
\* the same text.
C15_Witness ==
  /\ Returned
  /\ result.operation = "rename_layer"
  /\ ToNames(WordsOf(Lower(text)), TRUE).ok
  /\ QuotedNames(WordsOf(Lower(text))).ok
  /\ result.parameters.old_name # ToNames(WordsOf(Lower(text)), TRUE).old
  /\ result.parameters.old_name = QuotedNames(WordsOf(Lower(text))).old

(***************************************************************************)
(* C16                                                                     *)
(***************************************************************************)
\* No classifier rule earlier than the list rule matches.
NoRuleBeforeList(words, tl) ==
  /\ ~VerbThenLayer(words)
  /\ ~RenamePhrase(tl)
  /\ ~TurnOnLayer(words)
  /\ ~TurnOffLayer(words)
  /\ ~VerbLayer(words, { <<"s", "h", "o", "w">>, <<"u", "n", "h", "i", "d", "e">>, <<"h", "i", "d", "e">>, <<"d", "i", "s", "a", "b", "l", "e">> })
  /\ ~VerbLayer(words, DeletionVerbs)

\* C16: every text with a "list/show [all] layers" phrasing that matches no
\* earlier classifier rule is parsed to list_layers with an empty
\* parameters mapping and confidence exactly 0.95.
C16_ListLayers ==
  Done =>
    LET tl == Lower(text)
        words == WordsOf(tl)
    IN (ListPhrase(words) /\ NoRuleBeforeList(words, tl)) =>
         /\ result.status = "ok"
         /\ result.operation = "list_layers"
         /\ result.parameters = <<>>
         /\ result.confidence = 950

(***************************************************************************)
(* C17                                                                     *)
(* Confidences are in thousandths: 0.15 is 150.  The floating-point sum    *)
(* of the code differs from the decimal sum by less than 1e-15.            *)
(***************************************************************************)
\* The shape of a returned draw command.
ShapeOf(r) == CHOOSE s \in Range(ShapeOrder) : r.operation = "draw_" \o s

\* The sum of the weights, in thousandths, of the six features in the
\* order verb, shape, coordinates, measurement, colour, layer.
Weighted(verb, shape, coordinates, measurement, colour, layer) ==
  (IF verb THEN 150 ELSE 0) + (IF shape THEN 300 ELSE 0)
  + (IF coordinates THEN 350 ELSE 0) + (IF measurement THEN 100 ELSE 0)
  + (IF colour THEN 50 ELSE 0) + (IF layer THEN 50 ELSE 0)

\* The parameters that count as coordinate-bearing.
CoordinateKeys ==
  {"start", "end", "center", "position", "points", "corner1"}

NonDefaultColour(r) == r.parameters.color # "white"

NonDefaultLayer(r) == r.parameters.layer # <<"0">>

\* C17 as stated: the confidence of a draw command is the sum of the
\* weights of the features that hold: a draw-family verb (draw, create,
\* make, add) in the text (0.15), a keyword of the classified shape in the
\* text (0.30), any coordinate-bearing parameter (0.35), any measurement
\* parameter radius/height/width (0.10), a non-default colour (0.05), a
\* non-default layer (0.05).
C17_ConfidenceIsStatedSum ==
  (Returned /\ result.operation \in DrawOperations) =>
    LET words == WordsOf(Lower(text))
        keys == DOMAIN result.parameters
    IN result.confidence =
         Weighted(\E k \in DOMAIN words : words[k] \in DrawVerbs,
                  ShapeOf(result) \in WordShapes(words),
                  keys \cap CoordinateKeys # {},
                  keys \cap {"radius", "height", "width"} # {},
                  NonDefaultColour(result),
                  NonDefaultLayer(result))

\* C17 amended: the confidence of a draw command is the sum of the weights
\* of the features that hold: the word draw or create in the text (0.15;
\* make and add do not count), the name of the classified shape as a word
\* of the text (0.30; its other keywords do not count), one of the
\* parameters start, end, center, position, points, corner1 (0.35: every
\* shape but hatch), one of the parameters radius, height, width (0.10:
\* circle, arc, text), a non-default colour (0.05), a non-default layer
\* (0.05).
C17_ConfidenceIsSum ==
  (Returned /\ result.operation \in DrawOperations) =>
    LET words == WordsOf(Lower(text))
        shape == ShapeOf(result)
    IN result.confidence =
         Weighted(\E k \in DOMAIN words :
                    words[k] \in { <<"d", "r", "a", "w">>, <<"c", "r", "e", "a", "t", "e">> },
                  \E k \in DOMAIN words : words[k] = ShapeName(shape),
                  shape # "hatch",
                  shape \in {"circle", "arc", "text"},
                  NonDefaultColour(result),
                  NonDefaultLayer(result))

\* "make round": a circle without the weight of the verb and without that
\* of the shape keyword.
C17_Witness ==
  /\ Returned
  /\ result.operation = "draw_circle"
  /\ result.confidence = 450
  /\ \E k \in DOMAIN WordsOf(Lower(text)) :
       WordsOf(Lower(text))[k] = <<"m", "a", "k", "e">>
  /\ \E k \in DOMAIN WordsOf(Lower(text)) :
       WordsOf(Lower(text))[k] = <<"r", "o", "u", "n", "d">>

(***************************************************************************)
(* C18                                                                     *)
(***************************************************************************)
\* C18: the confidence of every returned ParsedCommand lies in [0.0, 1.0]:
\* the weighted score of a draw command, whatever the features, and the
\* fixed value of a layer command, 0.9 for the operations that carry a name
\* and 0.95 for list_layers.
C18_ConfidenceInUnitInterval ==
  Returned =>
    /\ result.confidence >= 0
    /\ result.confidence <= Milli
    /\ result.operation \in {"create_layer", "delete_layer", "rename_layer",
                             "turn_layer_on", "turn_layer_off"} =>
         result.confidence = 900
    /\ result.operation = "list_layers" => result.confidence = 950

\* A draw command with all six features has reached the upper end of the
\* interval.
C18_Witness ==
  /\ Returned
  /\ result.operation = "draw_circle"
  /\ result.confidence = Milli
  /\ NonDefaultColour(result)
  /\ NonDefaultLayer(result)

(***************************************************************************)
(* C19                                                                     *)
(***************************************************************************)
\* The signals of the claim present in the text t parsed to the draw
\* command r.
StatedSignals(t, r) ==
  LET tl == Lower(t)
      words == WordsOf(tl)
  IN (IF \E k \in DOMAIN words : words[k] \in DrawVerbs
        THEN {"verb"} ELSE {})
     \cup (IF ShapeOf(r) \in WordShapes(words) THEN {"shape"} ELSE {})
     \cup (IF FirstCoord(tl).ok THEN {"coordinates"} ELSE {})
     \cup (IF RadiusMatch(tl).ok \/ HeightMatch(tl).ok
             THEN {"measurement"} ELSE {})
     \cup (IF NonDefaultColour(r) THEN {"colour"} ELSE {})
     \cup (IF NonDefaultLayer(r) THEN {"layer"} ELSE {})

\* The signals that the estimator reads from the text t parsed to r: the
\* word draw or create, the name of the shape as a word, a non-default
\* colour, a non-default layer.
ScoredSignals(t, r) ==
  LET words == WordsOf(Lower(t))
  IN (IF \E k \in DOMAIN words : words[k] \in { <<"d", "r", "a", "w">>, <<"c", "r", "e", "a", "t", "e">> }
        THEN {"verb"} ELSE {})
     \cup (IF \E k \in DOMAIN words : words[k] = ShapeName(ShapeOf(r))
             THEN {"shape"} ELSE {})
     \cup (IF NonDefaultColour(r) THEN {"colour"} ELSE {})
     \cup (IF NonDefaultLayer(r) THEN {"layer"} ELSE {})

\* The lenient results of the baseline texts that are draw commands, by
\* their signals; alone is the text when it is a single word, else empty.
BaselineDraws ==
  LET Entry(u, r) ==
        IF r.status = "ok" /\ r.operation \in DrawOperations
          THEN { [alone |-> IF Len(WordsOf(Lower(u))) = 1
                              THEN Lower(u) ELSE <<>>,
                  operation |-> r.operation,
                  confidence |-> r.confidence,
                  stated |-> StatedSignals(u, r),
                  scored |-> ScoredSignals(u, r)] }
          ELSE {}
  IN UNION { Entry(u, parse_command(u, FALSE)) : u \in Baselines }

\* The text names verb, shape, coordinates, colour and layer.
FullySpecified(signals) ==
  {"verb", "shape", "coordinates", "colour", "layer"} \subseteq signals

\* C19 as stated: for one shape, a draw text in which more of the signals
\* (draw verb, shape keyword, coordinates in the text, measurement in the
\* text, non-default colour, non-default layer) are present never has a
\* lower confidence than a text in which fewer are present, and a fully
\* specified command (verb, shape, coordinates, colour, layer) has a
\* strictly greater confidence than the text consisting of the shape
\* keyword alone.
C19_MoreSignalsNeverLower ==
  (Returned /\ result.operation \in DrawOperations) =>
    LET Ordered(signals) ==
          \A b \in BaselineDraws :
            b.operation = result.operation =>
              /\ (b.stated \subseteq signals /\ b.stated # signals) =>
                   b.confidence <= result.confidence
              /\ ( /\ FullySpecified(signals)
                   /\ b.stated = {"shape"}
                   /\ b.alone # <<>> ) =>
                   b.confidence < result.confidence
    IN Ordered(StatedSignals(text, result))

\* C19 amended: for one shape, a draw text in which more of the signals
\* that the estimator reads (the word draw or create, the name of the
\* shape as a word, a non-default colour, a non-default layer) are present
\* never has a lower confidence than a text in which fewer are present;
\* texts with the same such signals have the same confidence, so that
\* coordinates and measurements in the text do not change it; a fully
\* specified command has a strictly greater confidence than the text
\* consisting alone of a shape keyword that it contains.
C19_MoreScoredSignalsNeverLower ==
  (Returned /\ result.operation \in DrawOperations) =>
    LET Ordered(words, scored, full) ==
          \A b \in BaselineDraws :
            b.operation = result.operation =>
              /\ b.scored \subseteq scored =>
                   b.confidence <= result.confidence
              /\ b.scored = scored => b.confidence = result.confidence
              /\ (full /\ \E k \in DOMAIN words : words[k] = b.alone) =>
                   b.confidence < result.confidence
    IN Ordered(WordsOf(Lower(text)), ScoredSignals(text, result),
               FullySpecified(StatedSignals(text, result)))

\* A fully specified circle has been scored above the text "circle".
C19_Witness ==
  /\ Returned
  /\ result.operation = "draw_circle"
  /\ FullySpecified(StatedSignals(text, result))
  /\ \E b \in BaselineDraws :
       /\ b.alone = <<"c", "i", "r", "c", "l", "e">>
       /\ b.confidence < result.confidence

(***************************************************************************)
(* C20                                                                     *)
(***************************************************************************)
\* The keys of the claim for the shape s, besides color, layer, lineweight.
ShapeKeys(s) ==
  CASE s = "line" -> {"start", "end"}
    [] s = "circle" -> {"center", "radius"}
    [] s = "arc" -> {"center", "radius", "start_angle", "end_angle"}
    [] s = "rectangle" -> {"corner1", "corner2"}
    [] s = "polyline" -> {"points", "closed"}
    [] s = "ellipse" -> {"center", "major_axis", "minor_ratio"}
    [] s = "text" -> {"position", "text", "height", "rotation"}
    [] s = "hatch" -> {"boundary_points", "pattern"}

\* The keys of the claim for the result r.
MeaningfulKeys(r) ==
  CASE r.operation \in DrawOperations ->
         {"color", "layer", "lineweight"} \cup ShapeKeys(ShapeOf(r))
    [] r.operation = "create_layer" -> {"name", "color", "lineweight"}
    [] r.operation \in {"delete_layer", "turn_layer_on", "turn_layer_off"} ->
         {"name"}
    [] r.operation = "rename_layer" -> {"old_name", "new_name"}
    [] r.operation = "list_layers" -> {}

\* C20: the parameters of a result have exactly the keys meaningful for
\* its operation: color, layer, lineweight and the shape's own keys for a
\* draw command; name, color, lineweight for create_layer; name for
\* delete_layer, turn_layer_on and turn_layer_off; old_name, new_name for
\* rename_layer; none for list_layers.
C20_ExactlyMeaningfulKeys ==
  Returned =>
    /\ result.operation \in Operations
    /\ DOMAIN result.parameters = MeaningfulKeys(result)

\* A text command has been returned with its seven keys.
C20_Witness ==
  /\ Returned
  /\ result.operation = "draw_text"
  /\ DOMAIN result.parameters =
       {"color", "layer", "lineweight", "position", "text", "height",
        "rotation"}

(***************************************************************************)
(* C21                                                                     *)
(***************************************************************************)
\* A word of digits, and the number it denotes.
IsIntWord(w) == w # <<>> /\ \A k \in DOMAIN w : w[k] \in Digits

IntOf(w) == DigitsValue(w, 1, Len(w) + 1) * Milli

\* The word at k, empty past the end.
WordAt(words, k) == IF k \in DOMAIN words THEN words[k] ELSE <<>>

\* The type-qualified phrase at word k: "<type> <n>" or "<type> angle <n>".
QualifiedAt(words, k, type) ==
  /\ WordAt(words, k) = type
  /\ \/ IsIntWord(WordAt(words, k + 1))
     \/ WordAt(words, k + 1) = K_angle /\ IsIntWord(WordAt(words, k + 2))

\* The unqualified phrase at word k: "angle <n>".
UnqualifiedAt(words, k) ==
  WordAt(words, k) = K_angle /\ IsIntWord(WordAt(words, k + 1))

\* The number of the first type-qualified phrase, when there is one.
QualifiedAngle(words, type) ==
  LET ks == {k \in DOMAIN words : QualifiedAt(words, k, type)}
      Value(k) ==
        IF IsIntWord(WordAt(words, k + 1)) THEN IntOf(words[k + 1])
        ELSE IntOf(words[k + 2])
  IN IF ks = {} THEN NotFound
     ELSE Found(Value(CHOOSE k \in ks : \A j \in ks : k <= j))

\* The number of the first unqualified phrase, when there is one.
UnqualifiedAngle(words) ==
  LET ks == {k \in DOMAIN words : UnqualifiedAt(words, k)}
  IN IF ks = {} THEN NotFound
     ELSE Found(IntOf(words[(CHOOSE k \in ks : \A j \in ks : k <= j) + 1]))

\* The angle is the number of the match, else the default 0.0 of lenient
\* mode.
AngleIs(value, m) ==
  IF m.ok THEN value = m.val ELSE value = 0 /\ ~strict_mode

\* C21: an angle is the number of the first type-qualified phrase of its
\* type; without one, only the start angle is taken from the first
\* unqualified "angle <n>"; the end angle of an arc and the rotation of a
\* text are then 0.0 in lenient mode, and in strict mode the call fails.
C21_OnlyStartFallsBack ==
  Done =>
    LET Angles(words, start, end, rotation, unqualified) ==
          /\ (Returned /\ result.operation = "draw_arc") =>
               /\ AngleIs(result.parameters.start_angle,
                          IF start.ok THEN start ELSE unqualified)
               /\ AngleIs(result.parameters.end_angle, end)
          /\ (Returned /\ result.operation = "draw_text") =>
               AngleIs(result.parameters.rotation, rotation)
          /\ ( /\ strict_mode
               /\ WordShapes(words) = {"arc"}
               /\ ~end.ok ) => RaisedMissingParameter
    IN Angles(WordsOf(Lower(text)),
              QualifiedAngle(WordsOf(Lower(text)), K_start),
              QualifiedAngle(WordsOf(Lower(text)), K_end),
              QualifiedAngle(WordsOf(Lower(text)), K_rotation),
              UnqualifiedAngle(WordsOf(Lower(text))))

\* An arc whose text has only "angle 30" has been returned with start
\* angle 30 and end angle 0.
C21_Witness ==
  /\ Returned
  /\ ~strict_mode
  /\ result.operation = "draw_arc"
  /\ ~QualifiedAngle(WordsOf(Lower(text)), K_start).ok
  /\ ~QualifiedAngle(WordsOf(Lower(text)), K_end).ok
  /\ UnqualifiedAngle(WordsOf(Lower(text))).ok
  /\ result.parameters.start_angle = 30 * Milli
  /\ result.parameters.end_angle = 0

(***************************************************************************)
(* C22                                                                     *)
(***************************************************************************)
\* A word <digits> or <digits>.<digits>.
IsDecimalWord(w) ==
  LET d == SkipDigits(w, 1)
  IN /\ d > 1
     /\ \/ d = Len(w) + 1
        \/ CharAt(w, d) = "." /\ SkipDigits(w, d + 1) = Len(w) + 1

\* The number of the first phrase "ratio <n>" or "minor <n>", when there is
\* one.
StatedRatio(words) ==
  LET ks == {k \in DOMAIN words :
               /\ words[k] \in { <<"r", "a", "t", "i", "o">>, <<"m", "i", "n", "o", "r">> }
               /\ IsDecimalWord(WordAt(words, k + 1))}
      Value(w) == ParseFloat(w, 1, Len(w) + 1)
  IN IF ks = {} THEN NotFound
     ELSE Found(Value(words[(CHOOSE k \in ks : \A j \in ks : k <= j) + 1]))

\* C22: the minor_ratio of every returned draw_ellipse lies in [0.0, 1.0]:
\* it is the ratio of the text when that is inside the interval, 1.0 when
\* the ratio of the text is above 1.0, and the lenient default 0.5 when the
\* text has no ratio.
C22_MinorRatioInUnitInterval ==
  (Returned /\ result.operation = "draw_ellipse") =>
    LET Clamped(ratio, m) ==
          /\ ratio >= 0
          /\ ratio <= Milli
          /\ (m.ok /\ m.val <= Milli) => ratio = m.val
          /\ (m.ok /\ m.val > Milli) => ratio = Milli
          /\ ~m.ok => (ratio = Milli \div 2 /\ ~strict_mode)
    IN Clamped(result.parameters.minor_ratio,
               StatedRatio(WordsOf(Lower(text))))

\* An ellipse with a ratio above 1.0 in its text has been returned with
\* minor_ratio 1.0.
C22_Witness ==
  /\ Returned
  /\ result.operation = "draw_ellipse"
  /\ StatedRatio(WordsOf(Lower(text))).ok
  /\ StatedRatio(WordsOf(Lower(text))).val > Milli
  /\ result.parameters.minor_ratio = Milli

(***************************************************************************)
(* C23                                                                     *)
(***************************************************************************)
\* The colour names in the order of the table, with their canonical values.
StatedColours ==
  << <<<<"b", "l", "a", "c", "k">>, "black">>, <<<<"r", "e", "d">>, "red">>, <<<<"g", "r", "e", "e", "n">>, "green">>,
     <<<<"b", "l", "u", "e">>, "blue">>, <<<<"y", "e", "l", "l", "o", "w">>, "yellow">>,
     <<<<"m", "a", "g", "e", "n", "t", "a">>, "magenta">>, <<<<"c", "y", "a", "n">>, "cyan">>,
     <<<<"w", "h", "i", "t", "e">>, "white">>, <<<<"g", "r", "a", "y">>, "gray">>, <<<<"g", "r", "e", "y">>, "gray">>,
     <<<<"o", "r", "a", "n", "g", "e">>, "orange">> >>

\* The colour names that occur in tl, by their place in the table.
ColoursIn(tl) ==
  {k \in DOMAIN StatedColours : Contains(tl, StatedColours[k][1])}

\* C23: the colour of a draw or create_layer command is the canonical
\* value of the first entry of the colour table, in table order, whose name
\* occurs as a substring of the lowercased text; it is white when no entry
\* occurs.
C23_FirstTableColour ==
  (Returned /\ result.operation \in DrawOperations \cup {"create_layer"}) =>
    LET First(ks) ==
          IF ks = {} THEN result.parameters.color = "white"
          ELSE \E k \in ks :
                 /\ \A j \in ks : k <= j
                 /\ result.parameters.color = StatedColours[k][2]
    IN First(ColoursIn(Lower(text)))

\* A command whose text names blue before red has been returned with the
\* colour red.
C23_Witness ==
  /\ Returned
  /\ result.operation \in DrawOperations \cup {"create_layer"}
  /\ ColoursIn(Lower(text)) = {2, 4}
  /\ \E i \in DOMAIN text :
       /\ StartsAt(Lower(text), i, <<"b", "l", "u", "e">>)
       /\ Contains(SubSeq(Lower(text), i, Len(text)), <<"r", "e", "d">>)
  /\ result.parameters.color = "red"

(***************************************************************************)
(* C25                                                                     *)
(***************************************************************************)
\* The name a word denotes: the inside of a quoted word, else the word.
NameOfWord(w) == IF IsQuotedWord(w) THEN SubSeq(w, 2, Len(w) - 1) ELSE w

\* The places of the words among kws that are followed by a name, quoted or
\* not; words are those of the text as written, lw those of the lowercased
\* text.
FollowedByName(words, lw, kws) ==
  {k \in DOMAIN words :
     /\ lw[k] \in kws
     /\ k < Len(words)
     /\ IsNameWord(words[k + 1]) \/ IsQuotedWord(words[k + 1])}

\* C25: for a draw command whose text has the modifier "on layer X" or
\* "layer X", the layer of the result is X as written in the text; the
\* layer is "0" only when neither "layer" nor "on" is followed by a name.
C25_LayerModifierName ==
  (Returned /\ result.operation \in DrawOperations) =>
    LET Named(words, lw) ==
          /\ FollowedByName(words, lw, {K_layer}) # {} =>
               \E k \in FollowedByName(words, lw, {K_layer}) :
                 result.parameters.layer = NameOfWord(words[k + 1])
          /\ result.parameters.layer = <<"0">> =>
               FollowedByName(words, lw, {K_layer, <<"o", "n">>}) = {}
    IN Named(WordsOf(text), WordsOf(Lower(text)))

(***************************************************************************)
(* C26                                                                     *)
(***************************************************************************)
\* The radii that the words designate: a number after the word radius or
\* the word r, with "=", "of" or ":" between them or not, in three words,
\* two words or one.
DesignatedRadii(words) ==
  LET Value(w) == ParseFloat(w, 1, Len(w) + 1)
      Spaced ==
        {Value(words[k + 1]) :
           k \in {j \in DOMAIN words :
                    /\ words[j] \in { <<"r", "a", "d", "i", "u", "s">>, <<"r">> }
                    /\ IsDecimalWord(WordAt(words, j + 1))}}
      Separated ==
        {Value(words[k + 2]) :
           k \in {j \in DOMAIN words :
                    /\ words[j] \in { <<"r", "a", "d", "i", "u", "s">>, <<"r">> }
                    /\ WordAt(words, j + 1) \in { <<"=">>, <<"o", "f">>, <<":">> }
                    /\ IsDecimalWord(WordAt(words, j + 2))}}
      Joined(w) ==
        {Value(SubSeq(w, Len(p) + 2, Len(w))) :
           p \in {q \in { <<"r", "a", "d", "i", "u", "s">>, <<"r">> } :
                    /\ Len(w) > Len(q) + 1
                    /\ SubSeq(w, 1, Len(q)) = q
                    /\ w[Len(q) + 1] \in {"=", ":"}
                    /\ IsDecimalWord(SubSeq(w, Len(q) + 2, Len(w)))}}
  IN Spaced \cup Separated \cup UNION {Joined(words[k]) : k \in DOMAIN words}

\* C26: the radius of a circle or arc is taken only from a number that
\* follows the word radius or the stand-alone token r (optionally with "=",
\* "of" or ":"); a text without such a designation gets the radius 50.0 in
\* lenient mode and fails in strict mode, whatever else it contains.
C26_RadiusOnlyFromDesignation ==
  (Returned /\ result.operation \in {"draw_circle", "draw_arc"}) =>
    LET Designated(radii) ==
          IF radii = {}
            THEN result.parameters.radius = 50 * Milli /\ ~strict_mode
          ELSE result.parameters.radius \in radii
    IN Designated(DesignatedRadii(WordsOf(Lower(text))))

(***************************************************************************)
(* C27                                                                     *)
(***************************************************************************)
\* C27: whenever a processor in strict mode returns a ParsedCommand for a
\* text, a processor in lenient mode returns the same ParsedCommand for it:
\* the same operation, parameters, confidence and raw_text.
C27_StrictResultIsLenientResult ==
  (Returned /\ strict_mode) => result = parse_command(text, FALSE)

\* A draw command has been returned in strict mode.
C27_Witness ==
  /\ Returned
  /\ strict_mode
  /\ result.operation \in DrawOperations
  /\ result = parse_command(text, FALSE)

(***************************************************************************)
(* C28                                                                     *)
(***************************************************************************)
\* The pattern names in their fixed order, with their upper-cased values.
StatedPatterns ==
  << <<<<"s", "o", "l", "i", "d">>, "SOLID">>, <<<<"a", "n", "g", "l", "e">>, "ANGLE">>, <<<<"c", "r", "o", "s", "s">>, "CROSS">>,
     <<<<"h", "a", "t", "c", "h">>, "HATCH">>, <<<<"b", "r", "i", "c", "k">>, "BRICK">> >>

\* The pattern names that occur in tl, by their place in the order.
PatternsIn(tl) ==
  {k \in DOMAIN StatedPatterns : Contains(tl, StatedPatterns[k][1])}

\* C28: the pattern of a draw_hatch command is the upper-cased first name,
\* in the order solid, angle, cross, hatch, brick, that occurs as a
\* substring of the text; a hatch text that names no pattern gets SOLID in
\* lenient mode and fails in strict mode.
C28_FirstPatternInOrder ==
  Done =>
    LET First(ks, words) ==
          /\ (Returned /\ result.operation = "draw_hatch") =>
               IF ks = {}
                 THEN result.parameters.pattern = "SOLID" /\ ~strict_mode
               ELSE \E k \in ks :
                      /\ \A j \in ks : k <= j
                      /\ result.parameters.pattern = StatedPatterns[k][2]
          /\ (strict_mode /\ WordShapes(words) = {"hatch"} /\ ks = {}) =>
               RaisedMissingParameter
    IN First(PatternsIn(Lower(text)), WordsOf(Lower(text)))

\* A hatch whose text names brick before cross has been returned with the
\* pattern CROSS.
C28_Witness ==
  /\ Returned
  /\ result.operation = "draw_hatch"
  /\ PatternsIn(Lower(text)) = {3, 5}
  /\ \E i \in DOMAIN text :
       /\ StartsAt(Lower(text), i, <<"b", "r", "i", "c", "k">>)
       /\ Contains(SubSeq(Lower(text), i, Len(text)), <<"c", "r", "o", "s", "s">>)
  /\ result.parameters.pattern = "CROSS"

Dispatched == pc = "executed" /\ result.status = "ok"

\* Every operation that parse_command returns has a dispatch branch.
EveryOperationHasBranch ==
  Dispatched => backend.method \notin {"", "NLPParseError", "CADOperationError"}

\* C30: execute_natural_command and the parser agree on their interface:
\* every operation the parser returns has a dispatch branch, every key
\* that the branch reads is a key of the parser's parameters, and every
\* shape-specific value of the parser is passed on to the adapter call.
C30_DispatcherAgreesWithParser ==
  Dispatched =>
    /\ backend.method \notin {"", "NLPParseError", "CADOperationError"}
    /\ DOMAIN backend.args \subseteq DOMAIN result.parameters
    /\ result.operation \in DrawOperations =>
         ShapeKeys(ShapeOf(result)) \subseteq DOMAIN backend.args
    /\ \A key \in DOMAIN backend.args \cap DOMAIN result.parameters :
         backend.args[key] = result.parameters[key]

(***************************************************************************)
(* C29                                                                     *)
(***************************************************************************)
\* C29: a call get_adapter(t) either raises CADConnectionError or returns
\* an adapter that is connected at the moment of return and is the instance
\* stored for the resolved CAD type in the instance cache; it never returns
\* an adapter that an earlier disconnect_cad disconnected or removed from
\* the cache.
C29_ReturnedAdapterIsLive ==
  returned # NoReturn =>
    \/ returned.raised
    \/ /\ returned.adapter # 0
       /\ returned.adapter \in connected
       /\ Lookup(cad_instances, returned.resolved) = returned.adapter

====
